---- MODULE Spec2Model ----
(***************************************************************************)
(* Model of the Watlow F4 device session (watlow_f4.py): port discovery,   *)
(* the register read/write contract, profile programming and the PID       *)
(* parameter codec.                                                        *)
(*                                                                         *)
(* Every public method is one action.  An action runs the whole method:    *)
(* the method body is turned into the list of things it does in order      *)
(* (register operations and raises), and Run executes that list against    *)
(* the session, stopping at the first exception that is not swallowed.     *)
(* The transport calls of the call in progress are recorded in log, the    *)
(* way the method ended in outcome; Return hands the result to the caller  *)
(* and clears that per-call record.                                        *)
(*                                                                         *)
(* Engineering values (PID fields) are fixed-point integers in hundredths, *)
(* so 0.30 is 30 and 30000 is 3000000.                                     *)
(***************************************************************************)
EXTENDS Integers, Sequences, FiniteSets, TLC

\* ------------------------------------------------------------------ bounds
\* number of serial ports the machine can enumerate
MaxPorts == 3

\* ------------------------------------------------------- program constants
\* com_port: str = None
NoPort == 0
\* self.com_port = com_port or "DUMMY"
DummyPort == -1
\* fixed-point scale of the engineering values: two decimals
Scale == 100

Ports == 1..MaxPorts

\* Optional[float]: None is the empty tuple, a value v is <<v>>
Absent == <<>>
Some(v) == <<v>>
IsNone(o) == o = <<>>
Val(o) == o[1]

\* ---------------------------------------------------------------- registers
\* A member of WatlowF4Registers, possibly offset (idx + PROFILE_EVENT_OUTPUT_1)
Reg(n) == [name |-> n, off |-> 0]
RegOff(n, k) == [name |-> n, off |-> k]

\* ParamSpec(min, max, num_decimals), min and max in hundredths
ParamSpec(lo, hi, nd) == [min |-> lo, max |-> hi, num_decimals |-> nd]
PB_ENG_PARAM == ParamSpec(0, 30000 * Scale, 0)
INTEGRAL_SI_ENG_PARAM == ParamSpec(0, 30000, 2)
DERIVATIVE_SI_ENG_PARAM == ParamSpec(0, 999, 2)
RESET_US_ENG_PARAM == ParamSpec(0, 9999, 2)
RATE_US_ENG_PARAM == ParamSpec(0, 999, 2)
DB_ENG_PARAM == ParamSpec(0, 30000 * Scale, 0)
HYST_ENG_PARAM == ParamSpec(1 * Scale, 30000 * Scale, 0)

\* ------------------------------------------------------------------- state
VARIABLES
    alive,        \* a WatlowF4 object exists (its constructor returned)
    dummy,        \* the object is a DummyWatlowF4
    instrument,   \* port the minimalmodbus.Instrument is bound to, NoPort = None
    serial_open,  \* instrument.serial.is_open
    com_port,     \* self.com_port
    handles,      \* ports whose serial handle is open
    op,           \* method of the call in progress, "none" between calls
    args,         \* its arguments
    outcome,      \* "ok" or the exception it raised
    log,          \* transport calls made by the call, in order
    attempts,     \* ports try_port was called on, in order
    enumerated,   \* the call listed the serial ports (comports())
    was_connected, \* the session was Connected when the call started
    result,       \* the data the call returned, Absent for None
    started,      \* tuning targets whose "Starting tuning" line the call logged
    pc,           \* where each caller of a shared WatlowF4 stands
    request,      \* the register operation each caller is in, and how it ended
    steps,        \* ProgramEditor: the step types of self.program.steps
    tree,         \* the 'step_type' column of the rows of self.tree
    selection,    \* self.tree.selection(): the selected row, 0 for none
    current_selected_item, \* self.current_selected_item
    step_type_dropdown,    \* self.step_type_dropdown.get()
    do_not_update, \* self.do_not_update
    buttons       \* which of Add Step, Update Step, Remove Step are 'normal'

device_vars == <<alive, dummy, instrument, serial_open, com_port, handles,
                 op, args, outcome, log, attempts, enumerated, was_connected,
                 result, started>>
caller_vars == <<pc, request>>
editor_vars == <<steps, tree, selection, current_selected_item,
                 step_type_dropdown, do_not_update, buttons>>
vars == <<device_vars, caller_vars, editor_vars>>

session == <<alive, dummy, instrument, serial_open, com_port, handles>>

NoArgs == [none |-> TRUE]

\* the callers of one WatlowF4 in watlow_controller/main.py: the thread that
\* created it and the WatlowProgramThread it is handed to
Callers == {"main", "program_thread"}
NoRequest == [rw |-> "", register |-> "", outcome |-> "none"]

\* ph.StepTypeName
END == "End"
StepTypeName == {"Ramp by Time", "Ramp by Rate", "Soak", "Jump", "End", "Autostart"}

\* what current_selected_item can hold: None, the empty tuple, a tuple of one
\* item id, one item id (a str), a tuple of the id of a row since deleted
NoItem == [kind |-> "None", row |-> 0]
EmptySelection == [kind |-> "()", row |-> 0]
ItemTuple(row) == [kind |-> "tuple", row |-> row]
ItemId(row) == [kind |-> "str", row |-> row]
DeletedItem == [kind |-> "deleted", row |-> 0]

\* button states: TRUE is 'normal', FALSE 'disabled'
Buttons(add, update, remove) == [add |-> add, update |-> update, remove |-> remove]

Init ==
    /\ alive = FALSE
    /\ dummy = FALSE
    /\ instrument = NoPort
    /\ serial_open = FALSE
    /\ com_port = NoPort
    /\ handles = {}
    /\ op = "none"
    /\ args = NoArgs
    /\ outcome = "none"
    /\ log = <<>>
    /\ attempts = <<>>
    /\ enumerated = FALSE
    /\ was_connected = FALSE
    /\ result = Absent
    /\ started = <<>>
    /\ pc = [c \in Callers |-> "idle"]
    /\ request = [c \in Callers |-> NoRequest]
    \* ProgramEditor.__init__: create_app_widgets shows the End widgets,
    \* new_file makes the program of one End step
    /\ steps = <<END>>
    /\ tree = <<END>>
    /\ selection = 0
    /\ current_selected_item = ItemTuple(1)
    /\ step_type_dropdown = END
    /\ do_not_update = FALSE
    /\ buttons = Buttons(FALSE, TRUE, FALSE)

\* Connected state: an instrument whose port is open
Connected == instrument # NoPort /\ serial_open

\* ------------------------------------------------------- connection set-up
\* What a port does when probed: "answers" the status read, is "silent"
\* (the read raises), or "noopen" (minimalmodbus.Instrument() itself raises).
PortBehaviours == {"answers", "silent", "noopen"}
Envs == [Ports -> PortBehaviours]

\* the session fields try_port and find_and_connect work on
Sess(i, o, c, h, a) ==
    [instrument |-> i, serial_open |-> o, com_port |-> c, handles |-> h,
     attempts |-> a, result |-> FALSE]

\* variant: the except branch drops the instrument without closing its port
try_port_fail_leak(s) ==
    [s EXCEPT !.instrument = NoPort,
              !.serial_open = FALSE,
              !.result = FALSE]

\* try_port, except branches: close the instrument's port if there is one
try_port_fail(s) ==
    [s EXCEPT !.handles = IF s.instrument # NoPort
                          THEN s.handles \ {s.instrument} ELSE s.handles,
              !.instrument = NoPort,
              !.serial_open = FALSE,
              !.result = FALSE]

\* variant: a port that does not answer is reported as failed but the
\* instrument bound to it is kept, its port left open
try_port_keep(s, p, env) ==
    LET s0 == [s EXCEPT !.attempts = Append(s.attempts, p)] IN
    IF env[p] = "noopen"
    THEN try_port_fail(s0)
    ELSE LET s1 == [s0 EXCEPT !.instrument = p, !.serial_open = TRUE,
                              !.handles = s0.handles \cup {p}] IN
         IF env[p] = "answers"
         THEN [s1 EXCEPT !.com_port = p, !.result = TRUE]
         ELSE [s1 EXCEPT !.result = FALSE]

try_port(s, p, env) ==
    LET s0 == [s EXCEPT !.attempts = Append(s.attempts, p)] IN
    IF env[p] = "noopen"
    THEN \* Instrument() raised: self.instrument still holds the old value
         try_port_fail(s0)
    ELSE LET s1 == [s0 EXCEPT !.instrument = p, !.serial_open = TRUE,
                              !.handles = s0.handles \cup {p}] IN
         IF env[p] = "answers"
         THEN [s1 EXCEPT !.com_port = p, !.result = TRUE]
         ELSE try_port_fail(s1)

\* variant: a port that fails is tried a second time before the next one
RECURSIVE try_ports_retry(_, _, _)
try_ports_retry(s, ports, env) ==
    IF ports = <<>> THEN [s EXCEPT !.result = FALSE]
    ELSE LET s1 == try_port(s, Head(ports), env) IN
         IF s1.result THEN s1
         ELSE LET s2 == try_port(s1, Head(ports), env) IN
              IF s2.result THEN s2 ELSE try_ports_retry(s2, Tail(ports), env)

\* for port_info in ports: if self.try_port(port_info.device): return True
RECURSIVE try_ports(_, _, _)
try_ports(s, ports, env) ==
    IF ports = <<>> THEN [s EXCEPT !.result = FALSE]
    ELSE LET s1 == try_port(s, Head(ports), env) IN
         IF s1.result THEN s1 ELSE try_ports(s1, Tail(ports), env)

\* variant: an explicit port that does not answer falls back to enumeration
find_and_connect_fallback(s, p, ports, env) ==
    IF s.instrument # NoPort /\ s.serial_open
    THEN [s |-> s, enumerated |-> FALSE, outcome |-> "ok"]
    ELSE LET s0 == IF p # NoPort THEN try_port(s, p, env) ELSE s IN
         IF s0.result
         THEN [s |-> s0, enumerated |-> FALSE, outcome |-> "ok"]
         ELSE IF ports = <<>>
         THEN [s |-> s0, enumerated |-> TRUE, outcome |-> "ConnectionError"]
         ELSE LET s1 == try_ports(s0, ports, env) IN
              [s |-> s1, enumerated |-> TRUE,
               outcome |-> IF s1.result THEN "ok" ELSE "ConnectionError"]

\* find_and_connect(com_port): the session afterwards, whether the ports
\* were enumerated, and how the call ended
find_and_connect(s, p, ports, env) ==
    IF s.instrument # NoPort /\ s.serial_open
    THEN [s |-> s, enumerated |-> FALSE, outcome |-> "ok"]
    ELSE IF p # NoPort
    THEN LET s1 == try_port(s, p, env) IN
         [s |-> s1, enumerated |-> FALSE,
          outcome |-> IF s1.result THEN "ok" ELSE "ConnectionError"]
    ELSE IF ports = <<>>
    THEN [s |-> s, enumerated |-> TRUE, outcome |-> "ConnectionError"]
    ELSE LET s1 == try_ports(s, ports, env) IN
         [s |-> s1, enumerated |-> TRUE,
          outcome |-> IF s1.result THEN "ok" ELSE "ConnectionError"]

\* the lists comports() can return: distinct ports in any order
PortLists ==
    UNION {{q \in [1..n -> Ports] : \A i, j \in 1..n : i # j => q[i] # q[j]}
           : n \in 0..MaxPorts}

Idle == op = "none"

\* WatlowF4(slave_address, com_port): __init__ sets the fields and connects
Construct ==
    /\ Idle /\ ~alive
    /\ \E p \in Ports \cup {NoPort}, ports \in PortLists, env \in Envs :
         LET r == find_and_connect(Sess(NoPort, FALSE, p, handles, <<>>),
                                   p, ports, env) IN
         /\ op' = "__init__"
         /\ args' = [com_port |-> p, ports |-> ports, env |-> env]
         /\ outcome' = r.outcome
         /\ alive' = (r.outcome = "ok")
         /\ dummy' = FALSE
         /\ instrument' = r.s.instrument
         /\ serial_open' = r.s.serial_open
         /\ com_port' = r.s.com_port
         /\ handles' = r.s.handles
         /\ attempts' = r.s.attempts
         /\ enumerated' = r.enumerated
         /\ log' = <<>>
         /\ was_connected' = FALSE
         /\ result' = Absent
         /\ started' = <<>>
    /\ UNCHANGED <<caller_vars, editor_vars>>

\* DummyWatlowF4(slave_address, com_port): no connection is made
ConstructDummy ==
    /\ Idle /\ ~alive
    /\ \E p \in Ports \cup {NoPort} :
         /\ op' = "Dummy.__init__"
         /\ args' = [com_port |-> p]
         /\ com_port' = IF p # NoPort THEN p ELSE DummyPort
    /\ outcome' = "ok"
    /\ alive' = TRUE
    /\ dummy' = TRUE
    /\ instrument' = NoPort
    /\ serial_open' = FALSE
    /\ UNCHANGED <<handles>>
    /\ attempts' = <<>>
    /\ enumerated' = FALSE
    /\ log' = <<>>
    /\ was_connected' = FALSE
    /\ result' = Absent
    /\ started' = <<>>
    /\ UNCHANGED <<caller_vars, editor_vars>>

\* find_and_connect() called on an existing object
Call_find_and_connect ==
    /\ Idle /\ alive
    /\ \E p \in Ports \cup {NoPort}, ports \in PortLists, env \in Envs :
         LET r == IF dummy
                  THEN [s |-> Sess(instrument, serial_open, com_port, handles, <<>>),
                        enumerated |-> FALSE, outcome |-> "ok"]
                  ELSE find_and_connect(
                         Sess(instrument, serial_open, com_port, handles, <<>>),
                         p, ports, env) IN
         /\ op' = "find_and_connect"
         /\ args' = [com_port |-> p, ports |-> ports, env |-> env]
         /\ outcome' = r.outcome
         /\ instrument' = r.s.instrument
         /\ serial_open' = r.s.serial_open
         /\ com_port' = r.s.com_port
         /\ handles' = r.s.handles
         /\ attempts' = r.s.attempts
         /\ enumerated' = r.enumerated
    /\ log' = <<>>
    /\ was_connected' = Connected
    /\ result' = Absent
    /\ started' = <<>>
    /\ UNCHANGED <<alive, dummy>>
    /\ UNCHANGED <<caller_vars, editor_vars>>

\* controller.instrument.serial.close()
ClosePort ==
    /\ Idle /\ alive
    /\ instrument # NoPort /\ serial_open
    /\ serial_open' = FALSE
    /\ handles' = handles \ {instrument}
    /\ UNCHANGED <<alive, dummy, instrument, com_port, op, args, outcome,
                   log, attempts, enumerated, was_connected, result, started>>
    /\ UNCHANGED <<caller_vars, editor_vars>>

\* ------------------------------------------------- register operations
\* What a method body does, in order:
\*   "checked"  self.read_register / self.write_register
\*   "direct"   self.instrument.read_register / write_register inside try..raise
\*   "commit"   self.save_changes_to_eeprom()
\*   "raise"    an exception raised by the Python code itself
\*   "callback" a call of a function the caller supplied
\*   "sleep"    time.sleep
Checked(rw, reg, val) == [k |-> "checked", rw |-> rw, reg |-> reg, val |-> val, err |-> ""]
Direct(rw, reg, val) == [k |-> "direct", rw |-> rw, reg |-> reg, val |-> val, err |-> ""]
Raise(err) == [k |-> "raise", rw |-> "", reg |-> Reg(""), val |-> 0, err |-> err]
SAVE_CHANGES_TO_EEPROM == Reg("SAVE_CHANGES_TO_EEPROM")
Commit == [k |-> "commit", rw |-> "W", reg |-> SAVE_CHANGES_TO_EEPROM, val |-> 0, err |-> ""]
\* a call of the read_temperature_func handed to the tuning function
Callback(val) == [k |-> "callback", rw |-> "R", reg |-> Reg("read_temperature_func"), val |-> val, err |-> ""]

\* time.sleep(d)
Sleep(d) == [k |-> "sleep", rw |-> "S", reg |-> Reg("time.sleep"), val |-> d, err |-> ""]
\* an entry made when time.time() is t
At(e, t) == [f \in DOMAIN e \cup {"at"} |-> IF f = "at" THEN t ELSE e[f]]

\* one call of the transport (minimalmodbus), as it appears on the link,
\* with the time it was made at where the method reads the clock
IO(e, ok) ==
    IF "at" \in DOMAIN e
    THEN [rw |-> e.rw, reg |-> e.reg, val |-> e.val, ok |-> ok, at |-> e.at]
    ELSE [rw |-> e.rw, reg |-> e.reg, val |-> e.val, ok |-> ok]

\* the running call: the session fields a register operation can touch, the
\* transport calls so far, and how the call has ended ("running" = not yet)
RunState(i, o, h) ==
    [instrument |-> i, serial_open |-> o, handles |-> h, log |-> <<>>, outcome |-> "running"]

\* if not self.instrument or not self.instrument.serial.is_open
NotConnected(st) == st.instrument = NoPort \/ ~st.serial_open

\* the transport fails on its failAt-th call of this method (0: never)
Fails(st, failAt) == Len(st.log) + 1 = failAt

\* variant: a failed transport call is repeated once
register_op_retry(st, e, failAt) ==
    IF NotConnected(st)
    THEN [st EXCEPT !.outcome = "ConnectionError"]
    ELSE IF Fails(st, failAt)
    THEN [st EXCEPT !.log = st.log \o <<IO(e, FALSE), IO(e, TRUE)>>]
    ELSE [st EXCEPT !.log = Append(st.log, IO(e, TRUE))]

\* read_register / write_register: the connection guard, then one transport
\* call; the except branch logs and re-raises, the session is left as it was
register_op(st, e, failAt) ==
    IF NotConnected(st)
    THEN [st EXCEPT !.outcome = "ConnectionError"]
    ELSE IF Fails(st, failAt)
    THEN [st EXCEPT !.log = Append(st.log, IO(e, FALSE)), !.outcome = "IOError"]
    ELSE [st EXCEPT !.log = Append(st.log, IO(e, TRUE))]

\* variant: a failed transport call is logged and the method goes on
instrument_op_swallow(st, e, failAt) ==
    IF st.instrument = NoPort
    THEN [st EXCEPT !.outcome = "AttributeError"]
    ELSE IF Fails(st, failAt)
    THEN [st EXCEPT !.log = Append(st.log, IO(e, FALSE))]
    ELSE [st EXCEPT !.log = Append(st.log, IO(e, TRUE)),
                    !.serial_open = TRUE,
                    !.handles = st.handles \cup {st.instrument}]

\* self.instrument.write_register(...) with no guard: None has no such
\* attribute; on a closed port the library performs the call, which either
\* fails or reopens the port
instrument_op(st, e, failAt) ==
    IF st.instrument = NoPort
    THEN [st EXCEPT !.outcome = "AttributeError"]
    ELSE IF Fails(st, failAt)
    THEN [st EXCEPT !.log = Append(st.log, IO(e, FALSE)), !.outcome = "IOError"]
    ELSE [st EXCEPT !.log = Append(st.log, IO(e, TRUE)),
                    !.serial_open = TRUE,
                    !.handles = st.handles \cup {st.instrument}]

\* save_changes_to_eeprom: write_register under try, every exception swallowed
save_changes_to_eeprom(st, e, failAt) ==
    [register_op(st, e, failAt) EXCEPT !.outcome = "running"]

\* read_temperature_func(): a call to the outside that returns or raises,
\* counted with the transport calls
callback_op(st, e, failAt) ==
    IF Fails(st, failAt)
    THEN [st EXCEPT !.log = Append(st.log, IO(e, FALSE)), !.outcome = "CallbackError"]
    ELSE [st EXCEPT !.log = Append(st.log, IO(e, TRUE))]

\* one entry of a method body
Exec(st, e, failAt) ==
    CASE e.k = "checked" -> register_op(st, e, failAt)
      [] e.k = "direct" -> instrument_op(st, e, failAt)
      [] e.k = "commit" -> save_changes_to_eeprom(st, e, failAt)
      [] e.k = "callback" -> callback_op(st, e, failAt)
      [] e.k = "sleep" -> [st EXCEPT !.log = Append(st.log, IO(e, TRUE))]
      [] e.k = "raise" -> [st EXCEPT !.outcome = e.err]

RECURSIVE Run(_, _, _)
Run(st, body, failAt) ==
    IF st.outcome # "running" THEN st
    ELSE IF body = <<>> THEN [st EXCEPT !.outcome = "ok"]
    ELSE Run(Exec(st, Head(body), failAt), Tail(body), failAt)

\* a method can be called when no call is in progress and the object exists
CanCall == Idle /\ alive

\* the record of a finished call on the existing object: st is the run
\* state it ended in, res what it returns when it does not raise
Finish(name, a, st, res) ==
    /\ op' = name
    /\ args' = a
    /\ outcome' = st.outcome
    /\ log' = st.log
    /\ serial_open' = st.serial_open
    /\ handles' = st.handles
    /\ result' = IF st.outcome = "ok" THEN res ELSE Absent
    /\ started' = <<>>
    /\ attempts' = <<>>
    /\ enumerated' = FALSE
    /\ was_connected' = Connected
    /\ UNCHANGED <<alive, dummy, instrument, com_port>>
    /\ UNCHANGED <<caller_vars, editor_vars>>

\* a method call that returns None: run its body, record the call
Call(name, a, body) ==
    \E failAt \in 0..Len(body) :
        Finish(name, a, Run(RunState(instrument, serial_open, handles), body, failAt),
               Absent)

\* registers and values used for the plain register calls
STATUS_INPUT_1_VALUE == Reg("STATUS_INPUT_1_VALUE")
VALUE_SET_POINT_1 == Reg("VALUE_SET_POINT_1")
SYSTEM_PID_UNITS == Reg("SYSTEM_PID_UNITS")
PROFILE_NUMBER == Reg("PROFILE_NUMBER")
PROFILE_STEP_NUMBER == Reg("PROFILE_STEP_NUMBER")
PROFILE_EDIT_ACTION == Reg("PROFILE_EDIT_ACTION")

PlainRegisters == {STATUS_INPUT_1_VALUE, VALUE_SET_POINT_1}
PlainValues == {0, 250}
ProfileNumbers == {1, 40}
StepNumbers == {0, 1}

read_register(reg, val) == <<Checked("R", reg, val)>>
write_register(reg, val) == <<Checked("W", reg, val)>>

Call_read_register ==
    /\ CanCall
    /\ \E reg \in PlainRegisters, v \in PlainValues :
           Call("read_register", [register |-> reg, value |-> v], read_register(reg, v))

Call_write_register ==
    /\ CanCall
    /\ \E reg \in PlainRegisters, v \in PlainValues :
           Call("write_register", [register |-> reg, value |-> v], write_register(reg, v))

Call_save_changes_to_eeprom ==
    /\ CanCall
    /\ Call("save_changes_to_eeprom", NoArgs, <<Commit>>)

\* set_temperature_setpoint: write SP1, then commit
set_temperature_setpoint(t) == write_register(VALUE_SET_POINT_1, t) \o <<Commit>>

Call_set_temperature_setpoint ==
    /\ CanCall
    /\ \E t \in PlainValues :
           Call("set_temperature_setpoint", [temperature |-> t], set_temperature_setpoint(t))

select_profile(n) == <<Direct("W", PROFILE_NUMBER, n)>>
select_step(n) == <<Direct("W", PROFILE_STEP_NUMBER, n)>>

Call_select_profile ==
    /\ CanCall
    /\ \E n \in ProfileNumbers :
           Call("select_profile", [profile_number |-> n], select_profile(n))

Call_select_step ==
    /\ CanCall
    /\ \E n \in StepNumbers :
           Call("select_step", [step_number |-> n], select_step(n))

\* clear_profile: select, edit action 3 (delete), commit
clear_profile(n) ==
    select_profile(n) \o <<Direct("W", PROFILE_EDIT_ACTION, 3)>> \o <<Commit>>

\* run_profile: select profile, select step 1, edit action 5 (start)
run_profile(n) ==
    select_profile(n) \o select_step(1) \o <<Direct("W", PROFILE_EDIT_ACTION, 5)>>

Call_clear_profile ==
    /\ CanCall
    /\ \E n \in ProfileNumbers :
           Call("clear_profile", [profile_number |-> n], clear_profile(n))

Call_run_profile ==
    /\ CanCall
    /\ \E n \in ProfileNumbers :
           Call("run_profile", [profile_number |-> n], run_profile(n))

\* ----------------------------------------------------- profile programming
\* number of steps of the programs handed to configure_profile
MaxSteps == 2
\* event_output_states: Event Output (1 to 8)
NumEvents == 8

\* step details (program_handler.py); flags are 0/1, durations in seconds
NoEvents == [k \in 1..NumEvents |-> 0]
SomeEvents == [k \in 1..NumEvents |-> IF k = 2 THEN 1 ELSE 0]
RampTime == [type |-> "RampTime", type_enum |-> 1, wait_for |-> 1,
             event_output_states |-> SomeEvents, duration |-> 3600,
             ch1_temp_setpoint |-> 100, ch2_temp_setpoint |-> 200,
             ch1_pid_selection |-> 1, ch2_pid_selection |-> 6,
             guaranteed_soak_1 |-> 1, guaranteed_soak_2 |-> 0]
RampRate == [type |-> "RampRate", type_enum |-> 2, wait_for |-> 0,
             event_output_states |-> NoEvents, rate |-> 5,
             ch1_temp_setpoint |-> 150, ch1_pid_selection |-> 2,
             guaranteed_soak_1 |-> 1]
Soak == [type |-> "Soak", type_enum |-> 3, wait_for |-> 1,
         event_output_states |-> SomeEvents, duration |-> 3725,
         ch1_pid_selection |-> 3, ch2_pid_selection |-> 7,
         guaranteed_soak_1 |-> 0, guaranteed_soak_2 |-> 1]
Jump == [type |-> "Jump", type_enum |-> 4, jump_to_profile |-> 10,
         jump_to_step |-> 5, number_of_repeats |-> 3]
End == [type |-> "End", type_enum |-> 5, end_action |-> 1,
        ch1_idle_setpoint |-> 20, ch2_idle_setpoint |-> 25]
AutostartDay == [type |-> "Autostart", type_enum |-> 0, date_or_day |-> 0,
                 start_time |-> 30600, start_day |-> Some(2), start_date |-> Absent]
AutostartDate == [type |-> "Autostart", type_enum |-> 0, date_or_day |-> 1,
                  start_time |-> 61, start_day |-> Absent,
                  start_date |-> Some([month |-> 12, day |-> 24, year |-> 2025])]
\* the Autostart the editor builds for a day-of-week start
\* (get_step_from_current_selection: start_day is set if date_or_day == 1)
AutostartWeekday == [type |-> "Autostart", type_enum |-> 0, date_or_day |-> 1,
                     start_time |-> 30600, start_day |-> Some(2), start_date |-> Absent]
StepDetails == {RampTime, RampRate, Soak, Jump, End, AutostartDay, AutostartDate,
                AutostartWeekday}

\* dt.now() at the time of the call
Dates == {[month |-> 1, day |-> 31, year |-> 2026]}

\* timedelta_to_hours_minutes_seconds
timedelta_to_hours_minutes_seconds(total_seconds) ==
    [hours |-> total_seconds \div 3600,
     minutes |-> (total_seconds % 3600) \div 60,
     seconds |-> (total_seconds % 3600) % 60]

\* for idx, enabled_state in enumerate(step.event_output_states): write idx + base
event_outputs(step) ==
    [k \in 1..Len(step.event_output_states) |->
        Direct("W", RegOff("PROFILE_EVENT_OUTPUT_1", k - 1), step.event_output_states[k])]

\* write_register(reg, value) of a value that may be None: the library
\* rejects a non-numerical value with TypeError before any I/O
DirectOpt(reg, o) == IF IsNone(o) THEN Raise("TypeError") ELSE Direct("W", reg, Val(o))

\* insert_step, the variant dispatch on type(step)
step_fields(step, now) ==
    CASE step.type = "RampTime" ->
           <<Direct("W", Reg("PROFILE_WAIT_FOR"), step.wait_for)>>
           \o event_outputs(step) \o event_outputs(step)
           \o <<Direct("W", Reg("PROFILE_RAMP_SETPOINT_CHANNEL_1"), step.ch1_temp_setpoint),
                Direct("W", Reg("PROFILE_RAMP_SETPOINT_CHANNEL_2"), step.ch2_temp_setpoint),
                Direct("W", Reg("PROFILE_PID_SET_CHANNEL_1"), step.ch1_pid_selection),
                Direct("W", Reg("PROFILE_PID_SET_CHANNEL_2"), step.ch2_pid_selection),
                Direct("W", Reg("PROFILE_GUARANTEED_SOAK_CHANNEL_1"), step.guaranteed_soak_1),
                Direct("W", Reg("PROFILE_GUARANTEED_SOAK_CHANNEL_2"), step.guaranteed_soak_2)>>
      [] step.type = "RampRate" ->
           <<Direct("W", Reg("PROFILE_STEP_TYPE"), step.type_enum),
             Direct("W", Reg("PROFILE_WAIT_FOR"), step.wait_for)>>
           \o event_outputs(step)
           \o <<Direct("W", Reg("PROFILE_RATE_RAMP_RATE_STEP"), step.rate),
                Direct("W", Reg("PROFILE_RAMP_SETPOINT_CHANNEL_1"), step.ch1_temp_setpoint),
                Direct("W", Reg("PROFILE_PID_SET_CHANNEL_1"), step.ch1_pid_selection),
                Direct("W", Reg("PROFILE_GUARANTEED_SOAK_CHANNEL_1"), step.guaranteed_soak_1)>>
      [] step.type = "Soak" ->
           LET t == timedelta_to_hours_minutes_seconds(step.duration) IN
           <<Direct("W", Reg("PROFILE_STEP_TYPE"), step.type_enum),
             Direct("W", Reg("PROFILE_WAIT_FOR"), step.wait_for)>>
           \o event_outputs(step)
           \o <<Direct("W", Reg("PROFILE_SOAK_STEP_TIME_HOURS"), t.hours),
                Direct("W", Reg("PROFILE_SOAK_STEP_TIME_MINUTES"), t.minutes),
                Direct("W", Reg("PROFILE_SOAK_STEP_TIME_SECONDS"), t.seconds),
                Direct("W", Reg("PROFILE_PID_SET_CHANNEL_1"), step.ch1_pid_selection),
                Direct("W", Reg("PROFILE_PID_SET_CHANNEL_2"), step.ch2_pid_selection),
                Direct("W", Reg("PROFILE_GUARANTEED_SOAK_CHANNEL_1"), step.guaranteed_soak_1),
                Direct("W", Reg("PROFILE_GUARANTEED_SOAK_CHANNEL_2"), step.guaranteed_soak_2)>>
      [] step.type = "Jump" ->
           <<Direct("W", Reg("PROFILE_STEP_TYPE"), step.type_enum),
             Direct("W", Reg("PROFILE_JUMP_TO_PROFILE"), step.jump_to_profile),
             Direct("W", Reg("PROFILE_JUMP_TO_STEP"), step.jump_to_step),
             Direct("W", Reg("PROFILE_JUMP_REPEATS"), step.number_of_repeats)>>
      [] step.type = "End" ->
           <<Direct("W", Reg("PROFILE_STEP_TYPE"), step.type_enum),
             Direct("W", Reg("PROFILE_END_ACTION"), step.end_action),
             Direct("W", Reg("PROFILE_END_IDLE_SETPOINT_CHANNEL_1"), step.ch1_idle_setpoint),
             Direct("W", Reg("PROFILE_END_IDLE_SETPOINT_CHANNEL_2"), step.ch2_idle_setpoint)>>
      [] step.type = "Autostart" ->
           LET t == timedelta_to_hours_minutes_seconds(step.start_time) IN
           <<Direct("W", Reg("PROFILE_STEP_TYPE"), step.type_enum),
             Direct("W", Reg("PROFILE_AUTOSTART_DATE_OR_DAY"), 0),
             Direct("W", Reg("PROFILE_AUTOSTART_DATE_MONTH"), now.month),
             Direct("W", Reg("PROFILE_AUTOSTART_DATE_DAY"), now.day),
             Direct("W", Reg("PROFILE_AUTOSTART_DATE_YEAR"), now.year),
             DirectOpt(Reg("PROFILE_AUTOSTART_DAY_OF_WEEK"), step.start_day),
             Direct("W", Reg("PROFILE_AUTOSTART_TIME_HOURS"), t.hours),
             Direct("W", Reg("PROFILE_AUTOSTART_TIME_MINUTES"), t.minutes),
             Direct("W", Reg("PROFILE_AUTOSTART_TIME_SECONDS"), t.seconds)>>
      [] OTHER -> <<>>

insert_step(step_number, step, now) ==
    select_step(step_number)
    \o <<Direct("W", PROFILE_EDIT_ACTION, 2)>>
    \o step_fields(step, now)

Call_insert_step ==
    /\ CanCall
    /\ \E n \in StepNumbers, step \in StepDetails, now \in Dates :
           Call("insert_step", [step_number |-> n, step |-> step, now |-> now],
                insert_step(n, step, now))

\* set_profile_name: the first statement looks up profile_name_enum_dict, a
\* name that watlow_f4.py neither defines nor imports
set_profile_name(profile_name, profile_num) == <<Raise("NameError")>>

ProfileNames == {"", "BAKE", "BAKE AND COOL"}
\* enumerate(profile_name): the characters of a name
Chars(profile_name) ==
    CASE profile_name = "" -> <<>>
      [] profile_name = "BAKE" -> <<"B", "A", "K", "E">>
      [] profile_name = "BAKE AND COOL" ->
           <<"B", "A", "K", "E", " ", "A", "N", "D", " ", "C", "O", "O", "L">>

Call_set_profile_name ==
    /\ CanCall
    /\ \E name \in ProfileNames, n \in ProfileNumbers :
           Call("set_profile_name", [profile_name |-> name, profile_num |-> n],
                set_profile_name(name, n))

\* Program(name, steps): one to MaxSteps steps
Programs ==
    {[name |-> nm, steps |-> st] :
        nm \in ProfileNames,
        st \in UNION {[1..n -> StepDetails] : n \in 1..MaxSteps}}

\* for i, step in enumerate(program): a Program dataclass is not iterable
enumerate_program(program, now) == <<Raise("TypeError")>>

\* configure_profile: select the profile, name it (with the default
\* profile_num of set_profile_name), the step loop, commit
configure_profile(program, profile_num, now) ==
    select_profile(profile_num)
    \o set_profile_name(program.name, 40)
    \o enumerate_program(program, now)
    \o <<Commit>>

Call_configure_profile ==
    /\ CanCall
    /\ \E program \in Programs, n \in ProfileNumbers, now \in Dates :
           Call("configure_profile", [program |-> program, profile_num |-> n, now |-> now],
                configure_profile(program, n, now))

\* ---------------------------------------------------------- PID parameters
\* round(x) of Python 3 on a value in hundredths: nearest integer, a tie
\* goes to the even neighbour
PyRound(h) ==
    LET q == h \div Scale
        r == h % Scale
    IN IF 2 * r < Scale THEN q
       ELSE IF 2 * r > Scale THEN q + 1
       ELSE IF q % 2 = 0 THEN q ELSE q + 1

\* int(round(val)) as an engineering value (hundredths again)
IntRound(h) == PyRound(h) * Scale

\* if val < spec.min: val = spec.min; if val > spec.max: val = spec.max
Clamp(val, spec) ==
    LET v1 == IF val < spec.min THEN spec.min ELSE val
    IN IF v1 > spec.max THEN spec.max ELSE v1

\* which (set, channel, side) have PID_CHANNEL_<c><s>_SET_<n>_* members in
\* WatlowF4Registers
PidRegistersExist(pid_set_number, channel, output_side) ==
    /\ pid_set_number \in 1..5
    /\ channel \in {1, 2}
    /\ output_side \in {"A", "B"}

PidReg(pid_set_number, channel, output_side, suffix) ==
    [name |-> suffix, off |-> 0, pid_set |-> pid_set_number,
     channel |-> channel, side |-> output_side]

\* _get_pid_registers: the seven registers of one PID set
get_pid_registers(n, c, sd) ==
    [pb |-> PidReg(n, c, sd, "PROPORTIONAL_BAND"),
     int_si |-> PidReg(n, c, sd, "INTEGRAL"),
     rst_us |-> PidReg(n, c, sd, "RESET"),
     der_si |-> PidReg(n, c, sd, "DERIVATIVE"),
     rte_us |-> PidReg(n, c, sd, "RATE"),
     db |-> PidReg(n, c, sd, "DEAD_BAND"),
     hyst |-> PidReg(n, c, sd, "HYSTERESIS")]

\* get_pid_units_mode: 1 is SI, anything else US
UnitsMode(value) == IF value = 1 THEN "SI" ELSE "US"

\* proportional band: clamp, write int(round(pb_val))
write_pb(params, regs) ==
    <<Checked("W", regs.pb, IntRound(Clamp(params.proportional_band, PB_ENG_PARAM)))>>

\* one field of the unit pair: written when `present` is not None, the value
\* is float(source) clamped to spec, written to reg
write_pair_field(present, source, spec, reg) ==
    IF IsNone(present) THEN <<>>
    ELSE IF IsNone(source) THEN <<Raise("TypeError")>>
    ELSE <<Checked("W", reg, Clamp(Val(source), spec))>>

\* the unit-mode pair, lines 232-272
write_pair(params, regs, mode) ==
    IF mode = "SI"
    THEN write_pair_field(params.integral, params.integral, INTEGRAL_SI_ENG_PARAM, regs.int_si)
         \o write_pair_field(params.derivative, params.reset, DERIVATIVE_SI_ENG_PARAM, regs.rst_us)
    ELSE write_pair_field(params.reset, params.derivative, RESET_US_ENG_PARAM, regs.der_si)
         \o write_pair_field(params.rate, params.rate, RATE_US_ENG_PARAM, regs.rte_us)

write_db(params, regs) ==
    IF IsNone(params.dead_band) THEN <<>>
    ELSE <<Checked("W", regs.db, IntRound(Clamp(Val(params.dead_band), DB_ENG_PARAM)))>>

\* variant: hysteresis is written only when the clamped band is exactly 0
hyst_condition_exact(params) ==
    Clamp(params.proportional_band, PB_ENG_PARAM) = 0

\* hysteresis is written when int(round(pb_val)) == 0
hyst_condition(params) ==
    PyRound(Clamp(params.proportional_band, PB_ENG_PARAM)) = 0

write_hyst(params, regs) ==
    IF IsNone(params.hysteresis) THEN <<>>
    ELSE IF hyst_condition(params)
    THEN <<Checked("W", regs.hyst, IntRound(Clamp(Val(params.hysteresis), HYST_ENG_PARAM)))>>
    ELSE <<>>

write_pid_parameters(params, n, c, sd, units) ==
    IF ~PidRegistersExist(n, c, sd) THEN <<Raise("ValueError")>>
    ELSE LET regs == get_pid_registers(n, c, sd)
             mode == UnitsMode(units)
         IN <<Checked("R", SYSTEM_PID_UNITS, units)>>
            \o write_pb(params, regs)
            \o write_pair(params, regs, mode)
            \o write_db(params, regs)
            \o write_hyst(params, regs)
            \o <<Commit>>

\* inputs: values below, inside and above every range, and band values that
\* round to 0 without being 0
PBValues == {-100, 0, 30, 50, 60, 3000100}
FieldValues == {Absent, Some(250), Some(3000100)}
DeadBandValues == {Absent, Some(-100), Some(3000100)}
HysteresisValues == {Absent, Some(0), Some(250)}
PIDInputs ==
    [proportional_band : PBValues, dead_band : DeadBandValues,
     hysteresis : HysteresisValues, integral : FieldValues,
     derivative : FieldValues, reset : FieldValues, rate : FieldValues]
PidSetNumbers == {0, 1}
UnitsValues == {0, 1}

Call_write_pid_parameters ==
    /\ CanCall
    /\ \E params \in PIDInputs, n \in PidSetNumbers, units \in UnitsValues :
           /\ PidRegistersExist(n, 1, "A") \/ params.proportional_band = 0
           /\ Call("write_pid_parameters",
                   [pid_params |-> params, pid_set_number |-> n, channel |-> 1,
                    output_side |-> "A", units |-> units],
                   write_pid_parameters(params, n, 1, "A", units))

\* read_register(reg, number_of_decimals=nd) of a register holding raw: the
\* library returns raw / 10^nd; the value in hundredths
FromRaw(raw, nd) == (raw * Scale) \div (10 ^ nd)

\* variant: SI mode reads the reset and rate registers, US mode the others
read_pair_swapped(regs, dev, mode) ==
    IF mode = "SI"
    THEN <<Checked("R", regs.rst_us, dev.rst_us), Checked("R", regs.rte_us, dev.rte_us)>>
    ELSE <<Checked("R", regs.int_si, dev.int_si), Checked("R", regs.der_si, dev.der_si)>>

\* lines 195-202: the pair of the unit mode
read_pair(regs, dev, mode) ==
    IF mode = "SI"
    THEN <<Checked("R", regs.int_si, dev.int_si), Checked("R", regs.der_si, dev.der_si)>>
    ELSE <<Checked("R", regs.rst_us, dev.rst_us), Checked("R", regs.rte_us, dev.rte_us)>>

\* variant: the registers are looked up after the band has been read
read_pid_parameters_late(n, c, sd, units, dev) ==
    <<Checked("R", PidReg(n, c, sd, "PROPORTIONAL_BAND"), dev.pb)>>
    \o IF ~PidRegistersExist(n, c, sd) THEN <<Raise("ValueError")>> ELSE <<>>

\* read_pid_parameters: look the registers up, read band, dead band and
\* hysteresis, read the unit mode, read the pair; dev is what the device holds
read_pid_parameters(n, c, sd, units, dev) ==
    IF ~PidRegistersExist(n, c, sd) THEN <<Raise("ValueError")>>
    ELSE LET regs == get_pid_registers(n, c, sd) IN
         <<Checked("R", regs.pb, dev.pb),
           Checked("R", regs.db, dev.db),
           Checked("R", regs.hyst, dev.hyst),
           Checked("R", SYSTEM_PID_UNITS, units)>>
         \o read_pair(regs, dev, UnitsMode(units))

\* the PIDParameters built from the six values read, in reading order
read_pid_result(l, mode) ==
    LET first == Some(FromRaw(l[5].val, 2))
        second == Some(FromRaw(l[6].val, 2))
    IN [proportional_band |-> FromRaw(l[1].val, 0),
        dead_band |-> Some(FromRaw(l[2].val, 0)),
        hysteresis |-> Some(FromRaw(l[3].val, 0)),
        integral |-> IF mode = "SI" THEN first ELSE Absent,
        derivative |-> IF mode = "SI" THEN second ELSE Absent,
        reset |-> IF mode = "SI" THEN Absent ELSE first,
        rate |-> IF mode = "SI" THEN Absent ELSE second]

\* raw contents of the seven registers of a PID set
DeviceImages ==
    {[pb |-> 25, db |-> 2, hyst |-> 3, int_si |-> 150, der_si |-> 20,
      rst_us |-> 75, rte_us |-> 10],
     [pb |-> 0, db |-> 0, hyst |-> 1, int_si |-> 30000, der_si |-> 0,
      rst_us |-> 1, rte_us |-> 999]}
PidChannels == {1, 3}

Call_read_pid_parameters ==
    /\ CanCall
    /\ \E n \in PidSetNumbers, c \in PidChannels, units \in UnitsValues,
          dev \in DeviceImages :
         LET body == read_pid_parameters(n, c, "A", units, dev) IN
         \E failAt \in 0..Len(body) :
             LET st == Run(RunState(instrument, serial_open, handles), body, failAt)
             IN Finish("read_pid_parameters",
                       [pid_set_number |-> n, channel |-> c, output_side |-> "A",
                        units |-> units, device |-> dev],
                       st, read_pid_result(st.log, UnitsMode(units)))

\* ------------------------------------------------- tuning: float arithmetic
\* The floats of tune_watlow.py are exact rationals [n, d] in lowest terms
\* with d > 0; float('inf') is [1, 0].  Rounding of the binary format is not
\* modelled.
Abs(x) == IF x < 0 THEN -x ELSE x
Q(n, d) ==
    LET RECURSIVE GCD(_, _)
        GCD(a, b) == IF b = 0 THEN a ELSE GCD(b, a % b)
        g == GCD(Abs(n), Abs(d))
        sgn == IF d < 0 THEN -1 ELSE 1
    IN [n |-> (sgn * n) \div g, d |-> (sgn * d) \div g]
Inf == [n |-> 1, d |-> 0]
QAdd(a, b) == Q(a.n * b.d + b.n * a.d, a.d * b.d)
QSub(a, b) == Q(a.n * b.d - b.n * a.d, a.d * b.d)
QMul(a, b) == Q(a.n * b.n, a.d * b.d)
QDiv(a, b) == Q(a.n * b.d, a.d * b.n)
QLt(a, b) == a.n * b.d < b.n * a.d
QAbs(a) == [n |-> Abs(a.n), d |-> a.d]
\* abs(a) < 1/e, for e = 10^6 and 10^9, without leaving 32 bits
QTiny(a, e) ==
    \/ a.n = 0
    \/ Abs(a.n) <= 2147483647 \div e /\ Abs(a.n) * e < a.d
\* an engineering value in hundredths as a float
QH(h) == Q(h, Scale)

\* variant: only the upper limit is applied
clamp_upper(val, min_val, max_val) ==
    IF QLt(max_val, val) THEN max_val ELSE val

\* clamp: max(min(val, max_val), min_val)
clamp(val, min_val, max_val) ==
    LET m == IF QLt(max_val, val) THEN max_val ELSE val
    IN IF QLt(m, min_val) THEN min_val ELSE m

\* ------------------------------------------------ tuning: reaction curve
\* a result of find_reaction_curve_params
Triple(Kp, L, T) == [Kp |-> Kp, L |-> L, T |-> T]

\* return 0.1, sample_interval * 2, sample_interval * 5
fallback_params(sample_interval) ==
    Triple(Q(1, 10), QMul(sample_interval, Q(2, 1)), QMul(sample_interval, Q(5, 1)))

\* lines 118-131: the slope of largest magnitude between consecutive samples
\* and the sample it starts at; i is the Python index + 1
RECURSIVE max_slope_scan(_, _, _, _)
max_slope_scan(ts, ps, i, acc) ==
    IF i >= Len(ps) THEN acc
    ELSE LET dt == QSub(ts[i + 1], ts[i]) IN
         IF dt.n <= 0 \/ QTiny(dt, 1000000)
         THEN max_slope_scan(ts, ps, i + 1, acc)
         ELSE LET cur == QDiv(QSub(ps[i + 1], ps[i]), dt) IN
              IF QLt(QAbs(acc.max_slope), QAbs(cur))
              THEN max_slope_scan(ts, ps, i + 1,
                       [max_slope |-> cur, slope_time_start |-> ts[i],
                        slope_pv_start |-> ps[i]])
              ELSE max_slope_scan(ts, ps, i + 1, acc)

\* variant: a near-zero slope gives three sample intervals of dead time
flat_response_params_three(Kp_process, sample_interval) ==
    Triple(Kp_process, QMul(sample_interval, Q(3, 1)), QMul(sample_interval, Q(5, 1)))

\* lines 133-135: the return for a slope of magnitude below 1e-6
flat_response_params(Kp_process, sample_interval) ==
    Triple(Kp_process, QMul(sample_interval, Q(2, 1)), QMul(sample_interval, Q(5, 1)))

\* variant: the time constant is returned as computed
floor_time_constant_none(T0, sample_interval) == T0

\* line 159: T = max(T, sample_interval)
floor_time_constant(T0, sample_interval) ==
    IF QLt(T0, sample_interval) THEN sample_interval ELSE T0

\* lines 95-162: the analysis of a response of three samples or more.  The
\* scan result and the dead time, which the later lines read many times, are
\* bound once as the element of a singleton set
analyse_response(response_data, sample_interval) ==
    LET time_pts == response_data.time_points
        temp_pts == response_data.temp_points
        initial_pv == temp_pts[1]
        NonNegative(t) == t.n >= 0
        step_time_pts == SelectSeq(time_pts, NonNegative)
        step_temp_pts == SubSeq(temp_pts, Len(time_pts) - Len(step_time_pts) + 1,
                                Len(temp_pts))
    IN IF step_temp_pts = <<>> THEN fallback_params(sample_interval)
       ELSE
       LET final_pv == step_temp_pts[Len(step_temp_pts)]
           delta_pv_total == QSub(final_pv, initial_pv)
           Kp0 == QDiv(delta_pv_total, Q(100, 1))
           Kp_process == IF QTiny(Kp0, 1000000000)
                         THEN (IF delta_pv_total.n >= 0 THEN Q(1, 10) ELSE Q(-1, 10))
                         ELSE Kp0
           dead_time(m) ==
               LET L0 == QSub(m.slope_time_start,
                              QDiv(QSub(m.slope_pv_start, initial_pv), m.max_slope))
               IN  IF L0.n > 0 THEN L0 ELSE Q(0, 1)
           time_constant(m, L) ==
               LET pv_at_L == QAdd(initial_pv, QMul(L, m.max_slope))
                   target == QAdd(pv_at_L, QMul(Q(632, 1000), QSub(final_pv, pv_at_L)))
                   hits == {i \in 1..Len(step_temp_pts) :
                               /\ ~QLt(step_time_pts[i], L)
                               /\ ~QLt(step_temp_pts[i], target)}
                   first == CHOOSE i \in hits : \A j \in hits : i <= j
                   T0 == IF hits = {}
                         THEN QDiv(QSub(final_pv, pv_at_L), m.max_slope)
                         ELSE QSub(step_time_pts[first], L)
               IN  floor_time_constant(T0, sample_interval)
           fitted(m) ==
               IF QTiny(m.max_slope, 1000000)
               THEN flat_response_params(Kp_process, sample_interval)
               ELSE CHOOSE t \in {Triple(Kp_process, L, time_constant(m, L)) :
                                     L \in {dead_time(m)}} : TRUE
       IN CHOOSE t \in {fitted(m) :
                  m \in {max_slope_scan(step_time_pts, step_temp_pts, 1,
                             [max_slope |-> Q(0, 1), slope_time_start |-> Q(0, 1),
                              slope_pv_start |-> initial_pv])}} : TRUE

\* variant: two samples are taken to be enough for the analysis
find_reaction_curve_params_two(response_data, sample_interval) ==
    IF Len(response_data.time_points) < 2 THEN fallback_params(sample_interval)
    ELSE analyse_response(response_data, sample_interval)

\* find_reaction_curve_params: fewer than 3 samples give the fallback
find_reaction_curve_params(response_data, sample_interval) ==
    IF Len(response_data.time_points) < 3 THEN fallback_params(sample_interval)
    ELSE analyse_response(response_data, sample_interval)

\* -------------------------------------------- tuning: Ziegler-Nichols rules
\* pid_type.upper()
Upper(pid_type) ==
    CASE pid_type = "p" -> "P"
      [] pid_type = "pi" -> "PI"
      [] pid_type = "pid" -> "PID"
      [] OTHER -> pid_type

\* the locals Kc, Ti_s, Td_s and pb_new at line 205
Locals(Kc, Ti_s, Td_s, pb_new) ==
    [Kc |-> Kc, Ti_s |-> Ti_s, Td_s |-> Td_s, pb_new |-> pb_new, err |-> ""]

\* variant: a negligible Kp x L gives the narrowest band
negligible_gain_locals_min_band(pid_units_mode) ==
    Locals(Q(0, 1),
           IF pid_units_mode = "SI"
           THEN QMul(QH(INTEGRAL_SI_ENG_PARAM.max), Q(60, 1))
           ELSE Inf,
           Q(0, 1), QH(PB_ENG_PARAM.min))

\* lines 182-187: Kp x L below 1e-9 skips the gain formula: widest band,
\* minimal integral action, no derivative
negligible_gain_locals(pid_units_mode) ==
    Locals(Q(0, 1),
           IF pid_units_mode = "SI"
           THEN QMul(QH(INTEGRAL_SI_ENG_PARAM.max), Q(60, 1))
           ELSE IF RESET_US_ENG_PARAM.min > 0
           THEN QDiv(Q(1, 1), QH(RESET_US_ENG_PARAM.min))
           ELSE Inf,
           Q(0, 1), QH(PB_ENG_PARAM.max))

\* variant: the classic PID row is applied with the PI gain factor 0.9
zn_rules_pi_gain(fit, pid_units_mode, sample_interval, pid_type) ==
    LET tenth == QDiv(sample_interval, Q(10, 1))
        L == IF QLt(fit.L, tenth) THEN tenth ELSE fit.L
        T == IF QLt(fit.T, sample_interval) THEN sample_interval ELSE fit.T
        KL == QMul(fit.Kp, L)
        Kc == QDiv(QMul(Q(9, 10), T), KL)
    IN IF QTiny(KL, 1000000000)
       THEN negligible_gain_locals(pid_units_mode)
       ELSE Locals(Kc, QMul(Q(2, 1), L), QMul(Q(1, 2), L),
                   IF Kc.n # 0 THEN QDiv(Q(100, 1), Kc) ELSE QH(PB_ENG_PARAM.max))

\* lines 176-204: floor L and T, then the rule of the controller type
zn_rules(fit, pid_units_mode, sample_interval, pid_type) ==
    LET tenth == QDiv(sample_interval, Q(10, 1))
        L == IF QLt(fit.L, tenth) THEN tenth ELSE fit.L
        T == IF QLt(fit.T, sample_interval) THEN sample_interval ELSE fit.T
        KL == QMul(fit.Kp, L)
        type == Upper(pid_type)
        factor == CASE type = "P" -> Q(1, 1)
                    [] type = "PI" -> Q(9, 10)
                    [] type = "PID" -> Q(12, 10)
        Kc == QDiv(QMul(factor, T), KL)
    IN IF QTiny(KL, 1000000000)
       THEN negligible_gain_locals(pid_units_mode)
       ELSE IF type \notin {"P", "PI", "PID"}
       THEN [Locals(Q(0, 1), Inf, Q(0, 1), Q(0, 1)) EXCEPT !.err = "ValueError"]
       ELSE Locals(Kc,
                   CASE type = "P" -> Inf
                     [] type = "PI" -> QDiv(L, Q(3, 10))
                     [] type = "PID" -> QMul(Q(2, 1), L),
                   IF type = "PID" THEN QMul(Q(1, 2), L) ELSE Q(0, 1),
                   IF Kc.n # 0 THEN QDiv(Q(100, 1), Kc) ELSE QH(PB_ENG_PARAM.max))

\* clamp(value, spec.min, spec.max)
clamp_to(val, spec) == clamp(val, QH(spec.min), QH(spec.max))

\* variant: the computed pair is returned without the clamp of lines 226-231
zn_pids_unclamped(loc, pid_units_mode) ==
    LET Ti == loc.Ti_s
        Td == loc.Td_s
        finite == Ti.d # 0 /\ Ti.n > 0
        SI == pid_units_mode = "SI"
        minutes == QDiv(Td, Q(60, 1))
    IN [proportional_band |-> clamp_to(loc.pb_new, PB_ENG_PARAM),
        integral |-> IF ~SI THEN Absent
                     ELSE Some(IF finite THEN QDiv(Ti, Q(60, 1))
                               ELSE QH(INTEGRAL_SI_ENG_PARAM.max)),
        derivative |-> IF ~SI THEN Absent
                       ELSE Some(IF Td.n > 0 THEN minutes
                                 ELSE QH(DERIVATIVE_SI_ENG_PARAM.min)),
        reset |-> IF SI THEN Absent
                  ELSE Some(IF finite THEN QDiv(Q(60, 1), Ti)
                            ELSE QH(RESET_US_ENG_PARAM.min)),
        rate |-> IF SI THEN Absent
                 ELSE Some(IF Td.n > 0 THEN minutes ELSE QH(RATE_US_ENG_PARAM.min)),
        dead_band |-> Some(clamp_to(QH(DB_ENG_PARAM.min), DB_ENG_PARAM)),
        hysteresis |-> Some(QH(HYST_ENG_PARAM.min))]

\* lines 207-239: the PIDParameters of the unit mode, every field clamped
zn_pids(loc, pid_units_mode) ==
    LET Ti == loc.Ti_s
        Td == loc.Td_s
        finite == Ti.d # 0 /\ Ti.n > 0
        SI == pid_units_mode = "SI"
        minutes == QDiv(Td, Q(60, 1))
        pb == clamp_to(loc.pb_new, PB_ENG_PARAM)
        hyst == QH(HYST_ENG_PARAM.min)
    IN [proportional_band |-> pb,
        integral |-> IF ~SI THEN Absent
                     ELSE Some(clamp_to(IF finite THEN QDiv(Ti, Q(60, 1))
                                        ELSE QH(INTEGRAL_SI_ENG_PARAM.max),
                                        INTEGRAL_SI_ENG_PARAM)),
        derivative |-> IF ~SI THEN Absent
                       ELSE Some(clamp_to(IF Td.n > 0 THEN minutes
                                          ELSE QH(DERIVATIVE_SI_ENG_PARAM.min),
                                          DERIVATIVE_SI_ENG_PARAM)),
        reset |-> IF SI THEN Absent
                  ELSE Some(clamp_to(IF finite THEN QDiv(Q(60, 1), Ti)
                                     ELSE QH(RESET_US_ENG_PARAM.min),
                                     RESET_US_ENG_PARAM)),
        rate |-> IF SI THEN Absent
                 ELSE Some(clamp_to(IF Td.n > 0 THEN minutes
                                    ELSE QH(RATE_US_ENG_PARAM.min),
                                    RATE_US_ENG_PARAM)),
        dead_band |-> Some(clamp_to(QH(DB_ENG_PARAM.min), DB_ENG_PARAM)),
        hysteresis |-> Some(IF QTiny(pb, 1000000)
                            THEN clamp_to(hyst, HYST_ENG_PARAM) ELSE hyst)]

\* calculate_new_watlow_pids_from_step_response: how it ends and what it returns
calculate_new_watlow_pids_from_step_response(response_data, pid_units_mode, sample_interval, pid_type) ==
    LET ends(loc) ==
            IF loc.err # "" THEN [outcome |-> loc.err, value |-> Absent]
            ELSE [outcome |-> "ok", value |-> zn_pids(loc, pid_units_mode)]
    IN CHOOSE c \in
           {ends(loc) :
               loc \in {zn_rules(fit, pid_units_mode, sample_interval, pid_type) :
                           fit \in {find_reaction_curve_params(response_data,
                                                               sample_interval)}}} : TRUE

\* ------------------------------------------------------- function calls
\* a call of a function that touches no session: only the call is recorded
Apply(name, a, out, res) ==
    /\ op' = name
    /\ args' = a
    /\ outcome' = out
    /\ result' = res
    /\ started' = <<>>
    /\ log' = <<>>
    /\ attempts' = <<>>
    /\ enumerated' = FALSE
    /\ was_connected' = FALSE
    /\ UNCHANGED session
    /\ UNCHANGED <<caller_vars, editor_vars>>

\* samples of a step response
MaxSamples == 4

\* the ParamSpec constants and values around their limits
EngParams ==
    {PB_ENG_PARAM, INTEGRAL_SI_ENG_PARAM, DERIVATIVE_SI_ENG_PARAM,
     RESET_US_ENG_PARAM, RATE_US_ENG_PARAM, DB_ENG_PARAM, HYST_ENG_PARAM}
ClampValues ==
    {Q(-1, 1), Q(0, 1), Q(1, 2), Q(1, 1), Q(50, 3), Q(999, 100), Q(10, 1),
     Q(9999, 100), Q(300, 1), Q(301, 1), Q(30000, 1), Q(30001, 1)}

Call_clamp ==
    /\ Idle
    /\ \E spec \in EngParams, x \in ClampValues :
           Apply("clamp",
                 [val |-> x, min_val |-> QH(spec.min), max_val |-> QH(spec.max)],
                 "ok", clamp(x, QH(spec.min), QH(spec.max)))

\* time stamps of the samples: one a second, a late first sample then one
\* every 10 s, two samples per time stamp, and a first sample before time 0
TimeGrids == {"regular", "late", "repeated", "early"}
TimeGrid(g, i) ==
    CASE g = "regular" -> i - 1
      [] g = "late" -> IF i = 1 THEN 0 ELSE 10 * i - 18
      [] g = "repeated" -> (i - 1) \div 2
      [] g = "early" -> i - 2
Temps == {0, 40, 100}
Responses ==
    UNION {{[time_points |-> [i \in 1..n |-> Q(TimeGrid(g, i), 1)],
             temp_points |-> [i \in 1..n |-> Q(ps[i], 1)]] :
               g \in TimeGrids, ps \in [1..n -> Temps]} : n \in 0..MaxSamples}
Intervals == {Q(1, 1), Q(5, 1)}
UnitModes == {"SI", "US"}
PidTypes == {"P", "PI", "PID", "pid", "X"}

\* a response that creeps up by 1e-7 degrees over two seconds
CreepingResponse ==
    [time_points |-> <<Q(0, 1), Q(1, 1), Q(2, 1)>>,
     temp_points |-> <<Q(0, 1), Q(0, 1), Q(1, 10000000)>>]
\* the responses with the sample intervals they are analysed at
FitCases == (Responses \X Intervals) \cup {<<CreepingResponse, Q(1, 4)>>}

Call_find_reaction_curve_params ==
    /\ Idle
    /\ \E fc \in FitCases : \E r \in {fc[1]}, i \in {fc[2]} :
           Apply("find_reaction_curve_params",
                 [response_data |-> r, sample_interval |-> i],
                 "ok", find_reaction_curve_params(r, i))

Call_calculate_new_watlow_pids ==
    /\ Idle
    /\ \E fc \in FitCases, mode \in UnitModes, type \in PidTypes :
         \E r \in {fc[1]}, i \in {fc[2]} :
           \E c \in {calculate_new_watlow_pids_from_step_response(r, mode, i, type)} :
              Apply("calculate_new_watlow_pids_from_step_response",
                    [response_data |-> r, pid_units_mode |-> mode,
                     sample_interval |-> i, pid_type |-> type],
                    c.outcome, c.value)

\* ------------------------------------------------------ tuning session
\* One stage of the loop body of your_pid_tuning_function for the target at
\* position `target` of the list (0: before the loop): what it does, whether
\* it stands in a try whose except logs and continues with the next target,
\* and the PIDs it stores in tuned_pids_results when it comes through
Stage(target, body, caught, stores) ==
    [target |-> target, body |-> body, caught |-> caught, stores |-> stores,
     start |-> FALSE]
\* the head of the loop body: logger.info("--- Starting tuning for ...")
Start(target) == [Stage(target, <<>>, FALSE, Absent) EXCEPT !.start = TRUE]

\* the progress of the function: the run state of its controller, the
\* "Starting tuning" lines logged, tuned_pids_results, and the target being
\* skipped after a caught exception
TuneState(st) == [st |-> st, started |-> <<>>, tuned |-> <<>>, skip |-> -1]

\* a float as an engineering value in hundredths
Hundredths(q) == (q.n * Scale) \div q.d

\* the PIDParameters built at lines 269-277 when initial_pid_guess is None
default_pid_guess(pid_units_mode) ==
    [proportional_band |-> (PB_ENG_PARAM.max * 8) \div 10,
     integral |-> IF pid_units_mode = "SI" THEN Some(INTEGRAL_SI_ENG_PARAM.max) ELSE Absent,
     reset |-> IF pid_units_mode = "US" THEN Some(RESET_US_ENG_PARAM.min) ELSE Absent,
     derivative |-> IF pid_units_mode = "SI" THEN Some(DERIVATIVE_SI_ENG_PARAM.min) ELSE Absent,
     rate |-> IF pid_units_mode = "US" THEN Some(RATE_US_ENG_PARAM.min) ELSE Absent,
     dead_band |-> Some(DB_ENG_PARAM.min),
     hysteresis |-> Some(HYST_ENG_PARAM.min)]

\* the computed PIDParameters as write_pid_parameters takes them
computed_pids(value) ==
    LET H(o) == IF IsNone(o) THEN Absent ELSE Some(Hundredths(Val(o)))
    IN [proportional_band |-> Hundredths(value.proportional_band),
        integral |-> H(value.integral), derivative |-> H(value.derivative),
        reset |-> H(value.reset), rate |-> H(value.rate),
        dead_band |-> H(value.dead_band), hysteresis |-> H(value.hysteresis)]

\* what read_temperature_func returns on its k-th call of a step test from
\* initial_sp to final_sp: a temperature that follows the setpoint linearly
\* over the test, or one that stays where it was
reading(plant, initial_sp, final_sp, k, num_samples) ==
    IF plant = "rising" /\ num_samples > 0
    THEN initial_sp + ((final_sp - initial_sp) * k) \div num_samples
    ELSE initial_sp

\* controller.set_temperature_setpoint(sp) called at time t on a link whose
\* register write takes write_latency
set_temperature_setpoint_at(sp, t, link) ==
    <<At(Checked("W", VALUE_SET_POINT_1, sp), t), At(Commit, t + link.write_latency)>>

\* variant: the targets are one sample interval early
target_sample_abs_time_early(step_command_issue_time, i, sample_interval_seconds) ==
    step_command_issue_time + (i - 1) * sample_interval_seconds

\* line 59: step_command_issue_time + (i * sample_interval_seconds)
target_sample_abs_time(step_command_issue_time, i, sample_interval_seconds) ==
    step_command_issue_time + (i * sample_interval_seconds)

\* lines 57-73: the sampling loop from sample i on, entered at time now; t
\* holds the test's arguments, link timing and step_command_issue_time, acc
\* what the test did and collected so far
RECURSIVE collect_samples(_, _, _, _)
collect_samples(i, now, acc, t) ==
    IF i > t.num_samples
    THEN [acc EXCEPT !.step_command_execution_time = now - t.step_command_issue_time]
    ELSE LET sleep_duration ==
                 target_sample_abs_time(t.step_command_issue_time, i,
                                        t.sample_interval_seconds) - now
             woke == IF sleep_duration > 0
                     THEN now + sleep_duration + t.link.oversleep
                     ELSE now
             external_temp == reading(t.plant, t.initial_sp, t.final_sp, i, t.num_samples)
         IN collect_samples(i + 1, woke + t.link.read_latency[i + 1],
                [acc EXCEPT
                   !.body = acc.body
                            \o (IF sleep_duration > 0
                                THEN <<At(Sleep(sleep_duration), now)>> ELSE <<>>)
                            \o <<At(Callback(external_temp), woke)>>,
                   !.time_points = Append(acc.time_points,
                                          woke - t.step_command_issue_time),
                   !.temp_points = Append(acc.temp_points, external_temp)],
                t)

\* variant: the pre-step sample is read after the step is commanded
step_test_start_late_sample(plant, initial_sp, final_sp, num_samples, settle_time_seconds, link) ==
    LET settled == link.write_latency + settle_time_seconds + link.oversleep
        stepped == settled + link.write_latency
    IN [body |-> set_temperature_setpoint_at(initial_sp, 0, link)
                 \o <<At(Sleep(settle_time_seconds), link.write_latency)>>
                 \o set_temperature_setpoint_at(final_sp, settled, link)
                 \o <<At(Callback(reading(plant, initial_sp, final_sp, 0, num_samples)),
                         stepped)>>,
        step_command_issue_time |-> settled,
        now |-> stepped + link.read_latency[1]]

\* lines 38-52: the initial setpoint, the settle wait, the pre-step sample,
\* the clock reading and the step; the call starts at time 0
step_test_start(plant, initial_sp, final_sp, num_samples, settle_time_seconds, link) ==
    LET settled == link.write_latency + settle_time_seconds + link.oversleep
        step_command_issue_time == settled + link.read_latency[1]
    IN [body |-> set_temperature_setpoint_at(initial_sp, 0, link)
                 \o <<At(Sleep(settle_time_seconds), link.write_latency),
                      At(Callback(reading(plant, initial_sp, final_sp, 0, num_samples)),
                         settled)>>
                 \o set_temperature_setpoint_at(final_sp, step_command_issue_time, link),
        step_command_issue_time |-> step_command_issue_time,
        now |-> step_command_issue_time + link.write_latency]

\* perform_step_test: what it does (body) and the StepResponseData it
\* returns when nothing raises
perform_step_test(plant, initial_sp, final_sp, duration_seconds, sample_interval_seconds, settle_time_seconds, link) ==
    LET num_samples == duration_seconds \div sample_interval_seconds
        pv_at_initial_sp == reading(plant, initial_sp, final_sp, 0, num_samples)
    IN CHOOSE r \in
       {collect_samples(1, start.now,
            [body |-> start.body,
             time_points |-> <<0>>,
             temp_points |-> <<pv_at_initial_sp>>,
             initial_sp |-> initial_sp,
             final_sp |-> final_sp,
             step_command_execution_time |-> 0],
            [plant |-> plant, initial_sp |-> initial_sp, final_sp |-> final_sp,
             num_samples |-> num_samples,
             sample_interval_seconds |-> sample_interval_seconds,
             link |-> link,
             step_command_issue_time |-> start.step_command_issue_time]) :
        start \in {step_test_start(plant, initial_sp, final_sp, num_samples,
                                   settle_time_seconds, link)}} : TRUE

\* a link on which no call takes time and no sleep overruns
PromptLink(num_samples) ==
    [write_latency |-> 0, oversleep |-> 0, read_latency |-> [i \in 1..(num_samples + 1) |-> 0]]

\* StepResponseData(time_points, temp_points, initial_sp, final_sp,
\*                  actual_step_test_duration)
StepResponseData(t) ==
    [time_points |-> t.time_points, temp_points |-> t.temp_points,
     initial_sp |-> t.initial_sp, final_sp |-> t.final_sp,
     step_command_execution_time |-> t.step_command_execution_time]

\* step tests in clock ticks: sample intervals, durations that are and are
\* not multiples of them, settle times; links that are prompt, slow to write,
\* oversleeping, and taking 3 ticks for one reading
SampleIntervals == {2, 3}
TestDurations == {0, 1, 2 * (MaxSamples - 1), 2 * (MaxSamples - 1) + 1}
SettleTimes == {0, 2}
Links(num_samples) ==
    [write_latency : {0, 1}, oversleep : {0, 1},
     read_latency : {[i \in 1..(num_samples + 1) |-> IF i = late THEN 3 ELSE 0] :
                        late \in 0..(num_samples + 1)}]

Call_perform_step_test ==
    /\ CanCall
    /\ \E sample_interval_seconds \in SampleIntervals, duration_seconds \in TestDurations,
          settle_time_seconds \in SettleTimes :
         \E link \in Links(duration_seconds \div sample_interval_seconds) :
           \E t \in {perform_step_test("rising", 80, 100, duration_seconds,
                                       sample_interval_seconds, settle_time_seconds,
                                       link)} :
             \E failAt \in 0..Len(t.body) :
                Finish("perform_step_test",
                       [initial_sp |-> 80, final_sp |-> 100,
                        duration_seconds |-> duration_seconds,
                        sample_interval_seconds |-> sample_interval_seconds,
                        settle_time_seconds |-> settle_time_seconds, link |-> link],
                       Run(RunState(instrument, serial_open, handles), t.body, failAt),
                       StepResponseData(t))

\* the StepResponseData it returns; samples are taken on time
step_response(plant, initial_sp, final_sp, num_samples, sample_interval) ==
    [time_points |-> [i \in 1..(num_samples + 1) |->
                         QMul(Q(i - 1, 1), sample_interval)],
     temp_points |-> [i \in 1..(num_samples + 1) |->
                         Q(reading(plant, initial_sp, final_sp, i - 1, num_samples), 1)]]

\* lines 294-296: the setpoint the step test starts from
initial_sp_for_test(target_sp, step_down_for_test_sp) ==
    IF target_sp - step_down_for_test_sp < 0 /\ target_sp > 0
    THEN target_sp \div 2
    ELSE target_sp - step_down_for_test_sp

\* step 5: set_temperature_setpoint(target_sp), then one reading per interval
verification(target_sp, samples) ==
    IF samples = 0 THEN <<>>
    ELSE set_temperature_setpoint(target_sp) \o [k \in 1..samples |-> Callback(target_sp)]

\* lines 281-359: the loop body for the target at position i
target_stages(i, target, cfg) ==
    LET mode == UnitsMode(cfg.units)
        guess == IF IsNone(cfg.initial_pid_guess) THEN default_pid_guess(mode)
                 ELSE Val(cfg.initial_pid_guess)
        initial_sp == initial_sp_for_test(target.target_sp, cfg.step_down_for_test_sp)
        num_samples == cfg.step_test_duration_s \div cfg.step_test_sample_interval_s
        response_data == step_response(cfg.plant, initial_sp, target.target_sp,
                                       num_samples,
                                       Q(cfg.step_test_sample_interval_s, 1))
    IN CHOOSE stages \in
       {<<Start(i),
          Stage(i, write_pid_parameters(guess, target.pid_set, target.channel,
                                        target.side, cfg.units), TRUE, Absent),
          Stage(i, perform_step_test(cfg.plant, initial_sp, target.target_sp,
                                     cfg.step_test_duration_s,
                                     cfg.step_test_sample_interval_s, 0,
                                     PromptLink(num_samples)).body, FALSE, Absent),
          Stage(i, IF calc.outcome = "ok" THEN <<>> ELSE <<Raise(calc.outcome)>>,
                TRUE, Absent),
          Stage(i, IF calc.outcome = "ok"
                   THEN write_pid_parameters(computed_pids(calc.value), target.pid_set,
                                             target.channel, target.side, cfg.units)
                   ELSE <<>>,
                TRUE, Some(calc.value)),
          Stage(i, verification(target.target_sp,
                                cfg.verification_duration_s
                                    \div cfg.step_test_sample_interval_s),
                FALSE, Absent)>> :
        calc \in {calculate_new_watlow_pids_from_step_response(
                      response_data, mode,
                      Q(cfg.step_test_sample_interval_s, 1), cfg.zn_pid_type)}} : TRUE

\* for target_sp, pid_set_to_tune, channel_to_tune, side_to_tune in tuning_targets
RECURSIVE loop_stages(_, _, _)
loop_stages(tuning_targets, i, cfg) ==
    IF i > Len(tuning_targets) THEN <<>>
    ELSE target_stages(i, tuning_targets[i], cfg)
         \o loop_stages(tuning_targets, i + 1, cfg)

\* line 264 and the loop: get_pid_units_mode() stands outside every try
tuning_stages(tuning_targets, cfg) ==
    <<Stage(0, <<Checked("R", SYSTEM_PID_UNITS, cfg.units)>>, FALSE, Absent)>>
    \o loop_stages(tuning_targets, 1, cfg)

\* variant: the PIDs of a stage are stored although the stage raised
run_stage_store_on_failure(ts, stage, tuning_targets, failAt) ==
    IF ts.skip = stage.target THEN ts
    ELSE CHOOSE after \in
         {IF r.outcome = "ok" \/ stage.caught
          THEN [ts EXCEPT
                  !.st = [r EXCEPT !.outcome = "running"],
                  !.skip = IF r.outcome = "ok" THEN ts.skip ELSE stage.target,
                  !.started = IF stage.start
                              THEN Append(ts.started, tuning_targets[stage.target])
                              ELSE ts.started,
                  !.tuned = IF IsNone(stage.stores) THEN ts.tuned
                            ELSE (tuning_targets[stage.target] :> Val(stage.stores))
                                 @@ ts.tuned]
          ELSE [ts EXCEPT !.st = r] :
          r \in {Run(ts.st, stage.body, failAt)}} : TRUE

\* one stage: skipped after a caught exception of its target; an exception
\* in a try is logged and the rest of the target skipped (continue), any
\* other exception leaves the function
run_stage(ts, stage, tuning_targets, failAt) ==
    IF ts.skip = stage.target THEN ts
    ELSE CHOOSE after \in
         {IF r.outcome = "ok"
          THEN [ts EXCEPT
                  !.st = [r EXCEPT !.outcome = "running"],
                  !.started = IF stage.start
                              THEN Append(ts.started, tuning_targets[stage.target])
                              ELSE ts.started,
                  !.tuned = IF IsNone(stage.stores) THEN ts.tuned
                            ELSE (tuning_targets[stage.target] :> Val(stage.stores))
                                 @@ ts.tuned]
          ELSE IF stage.caught
          THEN [ts EXCEPT !.st = [r EXCEPT !.outcome = "running"],
                          !.skip = stage.target]
          ELSE [ts EXCEPT !.st = r] :
          r \in {Run(ts.st, stage.body, failAt)}} : TRUE

RECURSIVE run_stages(_, _, _, _)
run_stages(ts, stages, tuning_targets, failAt) ==
    IF stages = <<>> \/ ts.st.outcome # "running" THEN ts
    ELSE CHOOSE end \in
         {run_stages(after, Tail(stages), tuning_targets, failAt) :
             after \in {run_stage(ts, Head(stages), tuning_targets, failAt)}} : TRUE

\* transport and callback calls the stages can make at most
RECURSIVE CallsOf(_)
CallsOf(stages) ==
    IF stages = <<>> THEN 0 ELSE Len(Head(stages).body) + CallsOf(Tail(stages))

\* tuning targets (target_sp, pid_set, channel, side), none to two of them
TuningTarget(sp, n) == [target_sp |-> sp, pid_set |-> n, channel |-> 1, side |-> "A"]
MaxTargets == 2
TuningTargets == {TuningTarget(100, 1), TuningTarget(10, 2)}
TargetLists == UNION {[1..n -> TuningTargets] : n \in 0..MaxTargets}

\* initial_pid_guess: None, a guess without the integral and derivative
\* fields, and one with all four of them
PidGuesses ==
    {Absent,
     Some([proportional_band |-> 4000, dead_band |-> Some(0), hysteresis |-> Some(0),
           integral |-> Absent, derivative |-> Absent, reset |-> Absent,
           rate |-> Absent]),
     Some([proportional_band |-> 4000, dead_band |-> Some(0), hysteresis |-> Some(0),
           integral |-> Some(500), derivative |-> Some(50), reset |-> Some(20),
           rate |-> Some(50)])}

\* serial ports found by WatlowF4(slave_address=1): one that answers, one
\* that is silent, none
TuningLinks ==
    {[ports |-> <<1>>, env |-> [p \in Ports |-> "answers"]],
     [ports |-> <<1>>, env |-> [p \in Ports |-> "silent"]],
     [ports |-> <<>>, env |-> [p \in Ports |-> "answers"]]}

TuningConfigs ==
    [initial_pid_guess : PidGuesses, units : UnitsValues,
     step_down_for_test_sp : {20}, step_test_duration_s : {0, 2},
     step_test_sample_interval_s : {1}, verification_duration_s : {0, 2},
     zn_pid_type : {"PID", "X"}, plant : {"rising", "flat"}]

\* your_pid_tuning_function: the controller is a local of the function; its
\* port is closed when the function is left and the object collected
Call_your_pid_tuning_function ==
    /\ Idle /\ ~alive
    /\ \E link \in TuningLinks, tuning_targets \in TargetLists, cfg \in TuningConfigs :
         \E conn \in {find_and_connect(Sess(NoPort, FALSE, NoPort, handles, <<>>),
                                       NoPort, link.ports, link.env)} :
           /\ op' = "your_pid_tuning_function"
           /\ args' = [tuning_targets |-> tuning_targets, cfg |-> cfg, link |-> link]
           /\ attempts' = conn.s.attempts
           /\ enumerated' = conn.enumerated
           /\ was_connected' = FALSE
           /\ UNCHANGED session
           /\ UNCHANGED <<caller_vars, editor_vars>>
           /\ IF conn.outcome # "ok"
              THEN \* except ConnectionError: log and return
                   /\ outcome' = "ok"
                   /\ log' = <<>>
                   /\ started' = <<>>
                   /\ result' = Absent
              ELSE \E stages \in {tuning_stages(tuning_targets, cfg)} :
                   \E failAt \in 0..CallsOf(stages) :
                   \E ts \in {run_stages(
                                 TuneState(RunState(conn.s.instrument,
                                                    conn.s.serial_open,
                                                    conn.s.handles)),
                                 stages, tuning_targets, failAt)} :
                       /\ outcome' = IF ts.st.outcome = "running" THEN "ok"
                                     ELSE ts.st.outcome
                       /\ log' = ts.st.log
                       /\ started' = ts.started
                       /\ result' = IF ts.st.outcome = "running"
                                    THEN [tuned_pids_results |-> ts.tuned]
                                    ELSE Absent

\* ---------------------------------------------- durations of the editor
\* td(hours=, minutes=, seconds=): a timedelta, in seconds
td(hours, minutes, seconds) == hours * 3600 + minutes * 60 + seconds

\* ProgramEditor.get_time_entries_timedelta on the three time entries: the
\* limit of 99 hours is applied inside the branch of minutes >= 60
get_time_entries_timedelta(hours, minutes, seconds) ==
    LET m1 == IF seconds >= 60 THEN minutes + seconds \div 60 ELSE minutes
        s1 == IF seconds >= 60 THEN seconds % 60 ELSE seconds
        carried == hours + m1 \div 60
        h1 == IF m1 >= 60
              THEN (IF carried <= 99 THEN carried ELSE 99)
              ELSE hours
        m2 == IF m1 >= 60 THEN m1 % 60 ELSE m1
    IN  td(h1, m2, s1)

\* contents of the Hours, Minutes and Seconds entries
HourEntries == {0, 2, 98, 99, 150}
MinuteEntries == {0, 6, 59, 60, 125}
SecondEntries == {0, 1, 59, 61, 99}

Call_get_time_entries_timedelta ==
    /\ Idle
    /\ \E h \in HourEntries, m \in MinuteEntries, s \in SecondEntries :
           Apply("get_time_entries_timedelta",
                 [hours |-> h, minutes |-> m, seconds |-> s],
                 "ok", get_time_entries_timedelta(h, m, s))

\* ------------------------------------------------ programs saved as JSON
\* JSON text is modelled by its structure: an object is a function of its
\* keys, the text HH:MM:SS is its three numbers, the text dd/mm/yyyy its
\* three numbers, null is Absent
Step(type_name, details) == [type_name |-> type_name, details |-> details]

\* the StepTypeName the editor pairs with each class of details
type_name_of(details) ==
    CASE details.type = "RampTime" -> "Ramp by Time"
      [] details.type = "RampRate" -> "Ramp by Rate"
      [] details.type = "Soak" -> "Soak"
      [] details.type = "Jump" -> "Jump"
      [] details.type = "End" -> "End"
      [] details.type = "Autostart" -> "Autostart"

\* asdict: the dataclass fields (type_enum is a class attribute)
asdict(details) ==
    [k \in DOMAIN details \ {"type", "type_enum"} |-> details[k]]

\* custom_encoder: f'{hours:02}:{minutes:02}:{seconds:02}' and strftime('%d/%m/%Y')
encode_td(t) == timedelta_to_hours_minutes_seconds(t)
encode_dt(d) == [dd |-> d.day, mm |-> d.month, yyyy |-> d.year]
custom_encoder(key, value) ==
    CASE key \in {"duration", "start_time"} -> encode_td(value)
      [] key = "start_date" ->
            IF IsNone(value) THEN Absent ELSE Some(encode_dt(Val(value)))
      [] OTHER -> value

\* time_string_to_timedelta and dt.strptime(value, '%d/%m/%Y')
time_string_to_timedelta(time_string) ==
    td(time_string.hours, time_string.minutes, time_string.seconds)
strptime(value) == [month |-> value.mm, day |-> value.dd, year |-> value.yyyy]

\* program_to_json: json.dumps(asdict(program), default=custom_encoder)
program_to_json(program) ==
    [name |-> program.name,
     steps |-> [i \in DOMAIN program.steps |->
                   LET d == asdict(program.steps[i].details)
                   IN  [type_name |-> program.steps[i].type_name,
                        details |-> [k \in DOMAIN d |-> custom_encoder(k, d[k])]]]]

\* d.get(key, default)
Get(d, key, default) == IF key \in DOMAIN d THEN d[key] ELSE default
ZeroTime == [hours |-> 0, minutes |-> 0, seconds |-> 0]

\* the End branch of dict_to_step_details: asdict wrote the keys
\* ch1_idle_setpoint and ch2_idle_setpoint
end_from_dict(d) ==
    [type |-> "End", type_enum |-> 5,
     end_action |-> Get(d, "end_action", 0),
     ch1_idle_setpoint |-> Get(d, "ch1_idle_set_point", 0),
     ch2_idle_setpoint |-> Get(d, "ch2_idle_set_point", 0)]

dict_to_step_details(d, type_name) ==
    CASE type_name = "Ramp by Time" ->
            [type |-> "RampTime", type_enum |-> 1,
             wait_for |-> Get(d, "wait_for", 0),
             event_output_states |-> Get(d, "event_output_states", NoEvents),
             duration |-> time_string_to_timedelta(Get(d, "duration", ZeroTime)),
             ch1_temp_setpoint |-> Get(d, "ch1_temp_setpoint", 25),
             ch2_temp_setpoint |-> Get(d, "ch2_temp_setpoint", 25),
             ch1_pid_selection |-> Get(d, "ch1_pid_selection", 0),
             ch2_pid_selection |-> Get(d, "ch2_pid_selection", 0),
             guaranteed_soak_1 |-> Get(d, "guaranteed_soak_1", 0),
             guaranteed_soak_2 |-> Get(d, "guaranteed_soak_2", 0)]
      [] type_name = "Ramp by Rate" ->
            [type |-> "RampRate", type_enum |-> 2,
             wait_for |-> Get(d, "wait_for", 0),
             event_output_states |-> Get(d, "event_output_states", NoEvents),
             rate |-> Get(d, "rate", 0),
             ch1_temp_setpoint |-> Get(d, "ch1_temp_setpoint", 25),
             ch1_pid_selection |-> Get(d, "ch1_pid_selection", 0),
             guaranteed_soak_1 |-> Get(d, "guaranteed_soak_1", 0)]
      [] type_name = "Soak" ->
            [type |-> "Soak", type_enum |-> 3,
             wait_for |-> Get(d, "wait_for", 0),
             event_output_states |-> Get(d, "event_output_states", NoEvents),
             duration |-> time_string_to_timedelta(Get(d, "duration", ZeroTime)),
             ch1_pid_selection |-> Get(d, "ch1_pid_selection", 0),
             ch2_pid_selection |-> Get(d, "ch2_pid_selection", 0),
             guaranteed_soak_1 |-> Get(d, "guaranteed_soak_1", 0),
             guaranteed_soak_2 |-> Get(d, "guaranteed_soak_2", 0)]
      [] type_name = "Jump" ->
            [type |-> "Jump", type_enum |-> 4,
             jump_to_profile |-> Get(d, "jump_to_profile", 1),
             jump_to_step |-> Get(d, "jump_to_step", 1),
             number_of_repeats |-> Get(d, "number_of_repeats", 1)]
      [] type_name = "End" -> end_from_dict(d)
      [] type_name = "Autostart" ->
            [type |-> "Autostart", type_enum |-> 0,
             date_or_day |-> Get(d, "date_or_day", 0),
             start_time |-> time_string_to_timedelta(Get(d, "start_time", ZeroTime)),
             start_day |-> Get(d, "start_day", Absent),
             start_date |-> IF IsNone(Get(d, "start_date", Absent))
                            THEN Absent
                            ELSE Some(strptime(Val(d["start_date"])))]
      [] OTHER -> [type |-> "ValueError"]

\* json_to_program
json_to_program(json_str) ==
    [name |-> json_str.name,
     steps |-> [i \in DOMAIN json_str.steps |->
                   Step(json_str.steps[i].type_name,
                        dict_to_step_details(json_str.steps[i].details,
                                             json_str.steps[i].type_name))]]

\* Program(name, steps) with steps as the editor builds them
StepPrograms ==
    {[name |-> p.name,
      steps |-> [i \in DOMAIN p.steps |->
                    Step(type_name_of(p.steps[i]), p.steps[i])]] : p \in Programs}

Call_json_to_program ==
    /\ Idle
    /\ \E program \in StepPrograms :
           LET json_str == program_to_json(program)
               decoded == json_to_program(json_str)
           IN  Apply("json_to_program",
                     [program |-> program, json_str |-> json_str],
                     IF \E i \in DOMAIN decoded.steps :
                            decoded.steps[i].details.type = "ValueError"
                     THEN "ValueError" ELSE "ok",
                     decoded)

\* the caller takes the result (or the exception) of the call; an object
\* whose constructor raised is never bound
Return ==
    /\ ~Idle
    /\ op' = "none"
    /\ args' = NoArgs
    /\ outcome' = "none"
    /\ log' = <<>>
    /\ attempts' = <<>>
    /\ enumerated' = FALSE
    /\ was_connected' = FALSE
    /\ result' = Absent
    /\ started' = <<>>
    /\ UNCHANGED <<caller_vars, editor_vars>>
    /\ IF alive
       THEN UNCHANGED session
       ELSE /\ UNCHANGED <<alive, dummy, handles>>
            /\ instrument' = NoPort
            /\ serial_open' = FALSE
            /\ com_port' = NoPort

\* ------------------------------------------------------- program editor
\* ProgramEditor of program_editor.py at the level of step types: the steps
\* of self.program, the rows of self.tree (their 'step_type' column), what is
\* selected, and the widgets that decide which handler can run.  Widget
\* values are taken to be valid, one row is selected at most, and a
\* <<TreeviewSelect>> event queued by a handler is delivered before the next
\* user action
\* the dropdown: values=[step_type.value for step_type in ph.StepTypeName if step_type not
\* in [ph.StepTypeName.END]]
DropdownValues == StepTypeName \ {END}

\* rows of the tree the editor is filled up to
MaxRows == 3

\* if self.current_selected_item:
Truthy(item) == item.kind \notin {"None", "()"}

\* the editor as the handlers see it; raised is the exception that ended
\* the handler, "" while it runs
Editor ==
    [steps |-> steps, tree |-> tree, selection |-> selection,
     current_selected_item |-> current_selected_item,
     step_type_dropdown |-> step_type_dropdown, do_not_update |-> do_not_update,
     buttons |-> buttons, raised |-> ""]
Raised(e, err) == [e EXCEPT !.raised = err]

\* list.insert(i, x) and list.pop(i), i counted from 1 here
InsertAt(s, i, x) ==
    IF i > Len(s) THEN Append(s, x)
    ELSE SubSeq(s, 1, i - 1) \o <<x>> \o SubSeq(s, i, Len(s))
RemoveAt(s, i) == SubSeq(s, 1, i - 1) \o SubSeq(s, i + 1, Len(s))

\* create_detail_widgets: all three buttons 'normal'; the End widgets
\* disable Remove and Add
create_detail_widgets(e, step_type_name) ==
    [e EXCEPT !.buttons = IF step_type_name = END
                          THEN Buttons(FALSE, TRUE, FALSE)
                          ELSE Buttons(TRUE, TRUE, TRUE)]

\* on_step_type_selected, the dropdown showing step_type_name
on_step_type_selected(e, step_type_name) ==
    LET shown == create_detail_widgets([e EXCEPT !.step_type_dropdown = step_type_name],
                                       step_type_name)
        item == e.current_selected_item
    IN IF ~Truthy(item) THEN shown
       ELSE IF item.kind = "deleted" THEN Raised(shown, "TclError")
       ELSE IF shown.tree[item.row] # END
       THEN [shown EXCEPT !.buttons.update = FALSE]
       ELSE shown

\* update_step
update_step(e) ==
    LET item == e.current_selected_item IN
    IF item.kind = "None" THEN Raised(e, "TypeError")
    ELSE IF item.kind = "()" THEN Raised(e, "IndexError")
    ELSE IF item.kind = "deleted"
    THEN Raised(e, IF e.tree = <<>> THEN "IndexError" ELSE "TclError")
    ELSE IF item.kind = "tuple" /\ item.row = Len(e.tree)
            /\ e.step_type_dropdown # END
    THEN e
    ELSE IF item.row > Len(e.steps) THEN Raised(e, "IndexError")
    ELSE [e EXCEPT !.steps[item.row] = e.step_type_dropdown,
                   !.tree[item.row] = e.step_type_dropdown]

\* on_treeview_select
on_treeview_select(e) ==
    LET updated == IF e.do_not_update THEN [e EXCEPT !.do_not_update = FALSE]
                   ELSE update_step(e)
        marked == [updated EXCEPT !.current_selected_item =
                      IF updated.selection = 0 THEN EmptySelection
                      ELSE ItemTuple(updated.selection)]
    IN IF updated.raised # "" THEN updated
       ELSE IF marked.selection = 0 THEN marked
       ELSE IF marked.selection > Len(marked.steps) THEN Raised(marked, "IndexError")
       ELSE create_detail_widgets(
                [marked EXCEPT !.step_type_dropdown = marked.steps[marked.selection]],
                marked.steps[marked.selection])

\* add_step up to self.tree.selection_set(...)
add_step_insert(e) ==
    LET item == e.current_selected_item
        step == e.step_type_dropdown
    IN IF Truthy(item)
       THEN IF item.kind = "deleted" THEN Raised(e, "TclError")
            ELSE LET inserted == InsertAt(e.steps, item.row, step) IN
                 IF item.row > Len(inserted)
                 THEN Raised([e EXCEPT !.steps = inserted], "IndexError")
                 ELSE [e EXCEPT !.steps = inserted,
                                !.tree = InsertAt(e.tree, item.row, inserted[item.row]),
                                !.current_selected_item = ItemId(item.row),
                                !.selection = item.row + 1]
       ELSE LET inserted == IF e.steps = <<>> THEN <<step>>
                            ELSE InsertAt(e.steps, Len(e.steps), step)
                last == Len(e.tree)
            IN IF last = 0 \/ last > Len(inserted)
               THEN Raised([e EXCEPT !.steps = inserted], "IndexError")
               ELSE [e EXCEPT !.steps = inserted,
                              !.tree = InsertAt(e.tree, last, inserted[last]),
                              !.current_selected_item = ItemId(last),
                              !.selection = last + 1]

\* add_step, then the <<TreeviewSelect>> of its selection_set
add_step(e) ==
    LET added == add_step_insert(e)
    IN IF added.raised # "" THEN added ELSE on_treeview_select(added)

\* remove_step up to self.tree.selection_set(...); "nothing selected" stands
\* for the return without a <<TreeviewSelect>>
remove_step_pop(e) ==
    LET row == e.selection
        marked == [e EXCEPT !.current_selected_item =
                      IF row = 0 THEN EmptySelection ELSE ItemTuple(row)]
    IN IF row = 0 THEN Raised(marked, "nothing selected")
       ELSE IF row > Len(marked.steps) THEN Raised(marked, "IndexError")
       ELSE LET popped == [marked EXCEPT !.steps = RemoveAt(marked.steps, row),
                                         !.tree = RemoveAt(marked.tree, row),
                                         !.selection = 0,
                                         !.do_not_update = TRUE]
            IN IF row > Len(popped.tree)
               THEN Raised([popped EXCEPT !.current_selected_item = DeletedItem],
                           "IndexError")
               ELSE IF row > Len(popped.steps)
               THEN Raised([popped EXCEPT !.current_selected_item = ItemId(row)],
                           "IndexError")
               ELSE [popped EXCEPT !.current_selected_item = ItemId(row),
                                   !.step_type_dropdown = popped.steps[row],
                                   !.selection = row]

\* remove_step, then the <<TreeviewSelect>> of its selection_set
remove_step(e) ==
    LET removed == remove_step_pop(e)
    IN IF removed.raised # "" THEN removed ELSE on_treeview_select(removed)

\* new_file: one End step, one row, current_selected_item the tuple of rows
new_file(e) ==
    [e EXCEPT !.steps = <<END>>, !.tree = <<END>>, !.selection = 0,
              !.current_selected_item = ItemTuple(1)]

\* the editor after the handler that ended in e
Shows(e) ==
    /\ steps' = e.steps
    /\ tree' = e.tree
    /\ selection' = e.selection
    /\ current_selected_item' = e.current_selected_item
    /\ step_type_dropdown' = e.step_type_dropdown
    /\ do_not_update' = e.do_not_update
    /\ buttons' = e.buttons
    /\ UNCHANGED <<device_vars, caller_vars>>

\* File > New
NewFile == Shows(new_file(Editor))

\* the Add Step button
AddStep ==
    /\ buttons.add
    /\ Len(steps) < MaxRows
    /\ Shows(add_step(Editor))

\* the Update Step button
UpdateStep ==
    /\ buttons.update
    /\ Shows(update_step(Editor))

\* the Remove Step button
RemoveStep ==
    /\ buttons.remove
    /\ Shows(remove_step(Editor))

\* a step type picked in the dropdown
SelectStepType ==
    \E step_type_name \in DropdownValues :
        Shows(on_step_type_selected(Editor, step_type_name))

\* a click on a row of the tree, or one that takes the selection away
SelectRow ==
    \E row \in 0..Len(tree) :
        Shows(on_treeview_select([Editor EXCEPT !.selection = row]))

EditorNext ==
    \/ NewFile
    \/ AddStep
    \/ UpdateStep
    \/ RemoveStep
    \/ SelectStepType
    \/ SelectRow

EditorSpec == Init /\ [][EditorNext]_vars

\* ------------------------------------------ callers sharing one WatlowF4
\* A caller enters read_register or write_register (lines 115-117, 133-135):
\* the connection test, with no lock taken
EnterRegisterCall(c) ==
    /\ CanCall
    /\ pc[c] = "idle"
    /\ \E rw \in {"R", "W"}, reg \in PlainRegisters :
         IF instrument = NoPort \/ ~serial_open
         THEN /\ request' = [request EXCEPT ![c] =
                     [rw |-> rw, register |-> reg.name,
                      outcome |-> "ConnectionError"]]
              /\ UNCHANGED pc
         ELSE /\ request' = [request EXCEPT ![c] =
                     [rw |-> rw, register |-> reg.name,
                      outcome |-> "running"]]
              /\ pc' = [pc EXCEPT ![c] = "connected"]
    /\ UNCHANGED <<device_vars, editor_vars>>

\* the caller enters self.instrument.read_register / write_register (lines
\* 120, 138): its request goes out on the serial link
StartTransport(c) ==
    /\ pc[c] = "connected"
    /\ pc' = [pc EXCEPT ![c] = "in_flight"]
    /\ UNCHANGED <<request, device_vars, editor_vars>>

\* the transport call returns or raises, and with it the register call
EndTransport(c) ==
    /\ pc[c] = "in_flight"
    /\ pc' = [pc EXCEPT ![c] = "idle"]
    /\ \E out \in {"ok", "IOError"} :
         request' = [request EXCEPT ![c].outcome = out]
    /\ UNCHANGED <<device_vars, editor_vars>>

CallerStep ==
    \E c \in Callers : EnterRegisterCall(c) \/ StartTransport(c) \/ EndTransport(c)

Next ==
    \/ Construct
    \/ ConstructDummy
    \/ Call_find_and_connect
    \/ ClosePort
    \/ Call_read_register
    \/ Call_write_register
    \/ Call_save_changes_to_eeprom
    \/ Call_set_temperature_setpoint
    \/ Call_select_profile
    \/ Call_select_step
    \/ Call_clear_profile
    \/ Call_run_profile
    \/ Call_insert_step
    \/ Call_set_profile_name
    \/ Call_configure_profile
    \/ Call_write_pid_parameters
    \/ Call_read_pid_parameters
    \/ Call_your_pid_tuning_function
    \/ Call_perform_step_test
    \/ Return

Spec == Init /\ [][Next]_vars

\* the functions of tune_watlow.py, program_editor.py and program_handler.py
\* that work on their arguments alone, applied to every input of the sets above
PureNext ==
    \/ Call_clamp
    \/ Call_find_reaction_curve_params
    \/ Call_calculate_new_watlow_pids
    \/ Call_get_time_entries_timedelta
    \/ Call_json_to_program
    \/ Return

PureSpec == Init /\ [][PureNext]_vars

\* one WatlowF4 used by two callers at once
SharedNext ==
    \/ Construct
    \/ ClosePort
    \/ Return
    \/ CallerStep

SharedSpec == Init /\ [][SharedNext]_vars

\* ================================================================ properties
\* helpers over the record of the call in progress
AllOk(l) == \A i \in 1..Len(l) : l[i].ok
Wrote(l, reg) == \E i \in 1..Len(l) : l[i].rw = "W" /\ l[i].reg = reg
WroteValue(l, reg, v) == \E i \in 1..Len(l) : l[i].rw = "W" /\ l[i].reg = reg /\ l[i].val = v
CountWrites(l, reg) == Cardinality({i \in 1..Len(l) : l[i].rw = "W" /\ l[i].reg = reg})
IsIO(e) == e.k # "raise"
\* the transport calls a method body makes when nothing fails
ExpectedIO(body) ==
    LET io == SelectSeq(body, IsIO)
    IN [i \in 1..Len(io) |-> IO(io[i], TRUE)]
\* the writes of steps i..N of a program, step number = position - 1
RECURSIVE StepSequences(_, _, _)
StepSequences(step_list, i, now) ==
    IF i > Len(step_list) THEN <<>>
    ELSE ExpectedIO(insert_step(i - 1, step_list[i], now))
         \o StepSequences(step_list, i + 1, now)

ConfigureRanClean == op = "configure_profile" /\ was_connected /\ AllOk(log)

\* C1: a configure_profile call on a connected session whose writes all
\* succeed issues the N step sequences (select step i, edit action 2, the
\* fields of step i) for i = 0..N-1 in ascending order, no step number
\* written before them, and then the commit.
C1_StepSequencesInOrder ==
    ConfigureRanClean =>
        LET exp == StepSequences(args.program.steps, 1, args.now)
                   \o ExpectedIO(<<Commit>>)
            n == Len(log) - Len(exp)
        IN /\ n >= 0
           /\ SubSeq(log, n + 1, Len(log)) = exp
           /\ ~Wrote(SubSeq(log, 1, n), PROFILE_STEP_NUMBER)

\* C2: in a configure_profile call whose writes all succeed the commit
\* register is written exactly once, as the last register write of the call.
C2_CommitOnceAndLast ==
    ConfigureRanClean =>
        /\ CountWrites(log, SAVE_CHANGES_TO_EEPROM) = 1
        /\ log[Len(log)].reg = SAVE_CHANGES_TO_EEPROM

PidCall == op = "write_pid_parameters"
PidRegs == get_pid_registers(args.pid_set_number, args.channel, args.output_side)
ClampedPB == Clamp(args.pid_params.proportional_band, PB_ENG_PARAM)
HystWritten == Wrote(log, PidRegs.hyst)

FieldSpec(name) ==
    CASE name = "PROPORTIONAL_BAND" -> PB_ENG_PARAM
      [] name = "INTEGRAL" -> INTEGRAL_SI_ENG_PARAM
      [] name = "DERIVATIVE" -> DERIVATIVE_SI_ENG_PARAM
      [] name = "RESET" -> RESET_US_ENG_PARAM
      [] name = "RATE" -> RATE_US_ENG_PARAM
      [] name = "DEAD_BAND" -> DB_ENG_PARAM
      [] name = "HYSTERESIS" -> HYST_ENG_PARAM
PidRegisterNames ==
    {"PROPORTIONAL_BAND", "INTEGRAL", "DERIVATIVE", "RESET", "RATE",
     "DEAD_BAND", "HYSTERESIS"}
PidWrites == {i \in 1..Len(log) : log[i].rw = "W" /\ log[i].reg.name \in PidRegisterNames}

\* C4: every value written to a PID register lies within the ParamSpec range
\* of that register's field, and no call is rejected for an out-of-range input.
C4_WrittenValuesInRange ==
    PidCall =>
        /\ \A i \in PidWrites :
              /\ log[i].val >= FieldSpec(log[i].reg.name).min
              /\ log[i].val <= FieldSpec(log[i].reg.name).max
        /\ outcome # "RangeError"

PidMode == UnitsMode(args.units)
CarriesPairOf(params, mode) ==
    IF mode = "SI"
    THEN ~IsNone(params.integral) /\ ~IsNone(params.derivative)
         /\ IsNone(params.reset) /\ IsNone(params.rate)
    ELSE ~IsNone(params.reset) /\ ~IsNone(params.rate)
         /\ IsNone(params.integral) /\ IsNone(params.derivative)

\* C5: given exactly the pair of the unit mode and no transport failure, SI
\* mode writes clamped integral and derivative to the SI registers, US mode
\* clamped reset and rate to the US registers, and the other pair's
\* registers are not written.
C5_PairMatchesUnitMode ==
    (PidCall /\ was_connected /\ AllOk(log)
       /\ PidRegistersExist(args.pid_set_number, args.channel, args.output_side)
       /\ CarriesPairOf(args.pid_params, PidMode)) =>
        IF PidMode = "SI"
        THEN /\ WroteValue(log, PidRegs.int_si,
                           Clamp(Val(args.pid_params.integral), INTEGRAL_SI_ENG_PARAM))
             /\ WroteValue(log, PidRegs.der_si,
                           Clamp(Val(args.pid_params.derivative), DERIVATIVE_SI_ENG_PARAM))
             /\ ~Wrote(log, PidRegs.rst_us) /\ ~Wrote(log, PidRegs.rte_us)
        ELSE /\ WroteValue(log, PidRegs.rst_us,
                           Clamp(Val(args.pid_params.reset), RESET_US_ENG_PARAM))
             /\ WroteValue(log, PidRegs.rte_us,
                           Clamp(Val(args.pid_params.rate), RATE_US_ENG_PARAM))
             /\ ~Wrote(log, PidRegs.int_si) /\ ~Wrote(log, PidRegs.der_si)

\* C6: a write_pid_parameters call that returns normally ended with a commit
\* write that succeeded.
C6_SuccessEndsWithCommit ==
    (PidCall /\ outcome = "ok") =>
        /\ Len(log) > 0
        /\ log[Len(log)].reg = SAVE_CHANGES_TO_EEPROM
        /\ log[Len(log)].rw = "W"
        /\ log[Len(log)].ok

DeviceOperations ==
    {"read_register", "write_register", "select_profile", "select_step",
     "insert_step", "set_profile_name", "clear_profile", "run_profile",
     "configure_profile"}

\* C7: a register operation issued while the session is not Connected fails
\* with ConnectionError and makes no transport call.
C7_NotConnectedFailsWithoutIO ==
    (op \in DeviceOperations /\ ~was_connected) =>
        /\ outcome = "ConnectionError"
        /\ log = <<>>

\* C8: a transport failure in read_register or write_register on a Connected
\* session propagates and leaves the session Disconnected.
C8_TransportFailureDisconnects ==
    (op \in {"read_register", "write_register"} /\ was_connected /\ ~AllOk(log)) =>
        /\ outcome = "IOError"
        /\ ~Connected

ConstructedWithoutPort == op = "__init__" /\ args.com_port = NoPort
Answering(ports, env) == {i \in 1..Len(ports) : env[ports[i]] = "answers"}
FirstAnswering(ports, env) ==
    CHOOSE i \in Answering(ports, env) : \A j \in Answering(ports, env) : i <= j

\* C9: construction without a port, when some enumerated port answers, tries
\* the ports in enumeration order up to the first that answers and no
\* further, ends Connected with com_port bound to it, and every port tried
\* before it has its handle closed.
C9_FailoverToFirstAnswering ==
    (ConstructedWithoutPort /\ Answering(args.ports, args.env) # {}) =>
        LET k == FirstAnswering(args.ports, args.env) IN
        /\ outcome = "ok" /\ alive
        /\ attempts = SubSeq(args.ports, 1, k)
        /\ Connected
        /\ instrument = args.ports[k]
        /\ com_port = args.ports[k]
        /\ \A j \in 1..(k - 1) : args.ports[j] \notin handles
        /\ handles = {args.ports[k]}

\* three candidates, only the third answers, the first opened and was silent
C9_Witness ==
    /\ ConstructedWithoutPort
    /\ Len(args.ports) = 3
    /\ Answering(args.ports, args.env) = {3}
    /\ args.env[args.ports[1]] = "silent"
    /\ Len(attempts) = 3
    /\ Connected /\ com_port = args.ports[3]

ConstructedWithPort == op = "__init__" /\ args.com_port # NoPort

\* C10: construction with an explicit port tries that port once and nothing
\* else, never enumerates; it ends Connected on that port if it answers and
\* fails with ConnectionError if it does not.
C10_ExplicitPortOnly ==
    ConstructedWithPort =>
        /\ attempts = <<args.com_port>>
        /\ ~enumerated
        /\ IF args.env[args.com_port] = "answers"
           THEN /\ outcome = "ok" /\ alive /\ Connected
                /\ instrument = args.com_port
                /\ com_port = args.com_port
                /\ handles = {args.com_port}
           ELSE /\ outcome = "ConnectionError" /\ ~alive
                /\ instrument = NoPort
                /\ handles = {}

\* the explicit port is silent while another enumerated port would answer
C10_Witness ==
    /\ ConstructedWithPort
    /\ args.env[args.com_port] = "silent"
    /\ \E i \in 1..Len(args.ports) :
          args.ports[i] # args.com_port /\ args.env[args.ports[i]] = "answers"
    /\ outcome = "ConnectionError"

\* the ports a construction may try: the explicit one, else the enumerated list
Candidates == IF args.com_port # NoPort THEN <<args.com_port>> ELSE args.ports
NoCandidateAnswers ==
    \A i \in 1..Len(Candidates) : args.env[Candidates[i]] # "answers"

\* C11: a construction none of whose candidate ports answers (the empty port
\* list included) fails with ConnectionError, holds no instrument, and leaves
\* no port handle open.
C11_NoAnswerFailsClean ==
    (op = "__init__" /\ NoCandidateAnswers) =>
        /\ outcome = "ConnectionError" /\ ~alive
        /\ instrument = NoPort /\ ~serial_open
        /\ handles = {}

\* three candidates were all tried, two of them opened and stayed silent
C11_Witness ==
    /\ ConstructedWithoutPort
    /\ Len(args.ports) = 3 /\ Len(attempts) = 3
    /\ NoCandidateAnswers
    /\ Cardinality({i \in 1..3 : args.env[args.ports[i]] = "silent"}) = 2
    /\ outcome = "ConnectionError"

PidOperations == {"read_pid_parameters", "write_pid_parameters"}
NoPidRegisters ==
    ~PidRegistersExist(args.pid_set_number, args.channel, args.output_side)

\* C13: a read_pid_parameters or write_pid_parameters call for a (set,
\* channel, side) that has no registers fails with the addressing error
\* (ValueError) and has issued no register read or write.
C13_NoRegistersFailsBeforeIO ==
    (op \in PidOperations /\ NoPidRegisters) =>
        /\ outcome = "ValueError"
        /\ log = <<>>

\* a read for a set that does not exist, on a session that could have read
C13_Witness ==
    /\ op = "read_pid_parameters" /\ was_connected
    /\ NoPidRegisters
    /\ outcome = "ValueError"

ReadPidOk == op = "read_pid_parameters" /\ outcome = "ok"
ReadOf(l, reg) == {i \in 1..Len(l) : l[i].rw = "R" /\ l[i].reg = reg}
WasRead(reg) == ReadOf(log, reg) # {}

\* C14: a read_pid_parameters call that returns has read the band, dead band
\* and hysteresis registers and exactly one pair: in SI mode integral and
\* derivative carry the contents of the SI registers and reset and rate are
\* absent, in US mode the converse; no register of the other pair is read.
C14_ReadsPairOfUnitMode ==
    ReadPidOk =>
        LET dev == args.device IN
        /\ WasRead(PidRegs.pb) /\ WasRead(PidRegs.db) /\ WasRead(PidRegs.hyst)
        /\ result.proportional_band = FromRaw(dev.pb, 0)
        /\ result.dead_band = Some(FromRaw(dev.db, 0))
        /\ result.hysteresis = Some(FromRaw(dev.hyst, 0))
        /\ IF PidMode = "SI"
           THEN /\ WasRead(PidRegs.int_si) /\ WasRead(PidRegs.der_si)
                /\ ~WasRead(PidRegs.rst_us) /\ ~WasRead(PidRegs.rte_us)
                /\ result.integral = Some(FromRaw(dev.int_si, 2))
                /\ result.derivative = Some(FromRaw(dev.der_si, 2))
                /\ IsNone(result.reset) /\ IsNone(result.rate)
           ELSE /\ WasRead(PidRegs.rst_us) /\ WasRead(PidRegs.rte_us)
                /\ ~WasRead(PidRegs.int_si) /\ ~WasRead(PidRegs.der_si)
                /\ result.reset = Some(FromRaw(dev.rst_us, 2))
                /\ result.rate = Some(FromRaw(dev.rte_us, 2))
                /\ IsNone(result.integral) /\ IsNone(result.derivative)

\* a read in US mode returned reset 0.75 and rate 0.10
C14_Witness ==
    /\ ReadPidOk /\ PidMode = "US"
    /\ result.reset = Some(75) /\ result.rate = Some(10)
    /\ IsNone(result.integral)

FitCall == op = "find_reaction_curve_params"

\* C15: for a response of fewer than 3 samples and every sample interval,
\* find_reaction_curve_params returns (0.1, 2 x interval, 5 x interval) and
\* does not raise.
C15_FallbackBelowThreeSamples ==
    (FitCall /\ Len(args.response_data.time_points) < 3) =>
        /\ outcome = "ok"
        /\ result.Kp = [n |-> 1, d |-> 10]
        /\ result.L = QMul(Q(2, 1), args.sample_interval)
        /\ result.T = QMul(Q(5, 1), args.sample_interval)

\* two samples with a rise between them still give the fallback
C15_Witness ==
    /\ FitCall
    /\ Len(args.response_data.time_points) = 2
    /\ args.response_data.temp_points[1] # args.response_data.temp_points[2]
    /\ args.response_data.time_points[1] # args.response_data.time_points[2]
    /\ args.sample_interval = Q(5, 1)
    /\ result = Triple(Q(1, 10), Q(10, 1), Q(25, 1))

CalcCall == op = "calculate_new_watlow_pids_from_step_response"
\* what the call in progress fitted, and its locals at line 205
Fit == find_reaction_curve_params(args.response_data, args.sample_interval)
ZNLocals == zn_rules(Fit, args.pid_units_mode, args.sample_interval, args.pid_type)
ZNType == Upper(args.pid_type)
\* the Ziegler-Nichols table for (Kp, L, T): gain, integral and derivative
\* time, proportional band
ZNTable(Kp, L, T, type) ==
    LET ratio == QDiv(T, QMul(Kp, L))
        gain == CASE type = "P" -> ratio
                  [] type = "PI" -> QMul(Q(9, 10), ratio)
                  [] type = "PID" -> QMul(Q(12, 10), ratio)
    IN [gain |-> gain,
        Ti |-> IF type = "PI" THEN QDiv(L, Q(3, 10)) ELSE QMul(Q(2, 1), L),
        Td |-> QDiv(L, Q(2, 1)),
        pb |-> QDiv(Q(100, 1), gain)]
AgreesWithTable(loc, t, type) ==
    /\ loc.err = ""
    /\ loc.Kc = t.gain
    /\ loc.pb_new = t.pb
    /\ type \in {"PI", "PID"} => loc.Ti_s = t.Ti
    /\ type = "PID" => loc.Td_s = t.Td
\* L and T as the rules use them: L at least a tenth of the sample interval,
\* T at least the sample interval
FlooredL ==
    LET tenth == QDiv(args.sample_interval, Q(10, 1))
    IN IF QLt(Fit.L, tenth) THEN tenth ELSE Fit.L
FlooredT == IF QLt(Fit.T, args.sample_interval) THEN args.sample_interval ELSE Fit.T

\* C16 as stated: whenever Kp x L of the fitted (Kp, L, T) is not negligible,
\* gain, integral time, derivative time and pre-clamp band are those of the
\* Ziegler-Nichols table applied to the fitted Kp, L and T.
C16_TableOnFittedParams ==
    (CalcCall /\ ZNType \in {"P", "PI", "PID"}
       /\ ~QTiny(QMul(Fit.Kp, Fit.L), 1000000000)) =>
        AgreesWithTable(ZNLocals, ZNTable(Fit.Kp, Fit.L, Fit.T, ZNType), ZNType)

\* C16 amended: the table is applied to Kp, to L raised to at least a tenth
\* of the sample interval and to T raised to at least the sample interval,
\* whenever Kp x that L is not negligible; the returned band is the table's
\* band clamped; Kp = 1, L = 2, T = 10 in PID mode give gain 6, band 100/6,
\* integral time 4 and derivative time 1.
C16_TableOnFlooredParams ==
    (CalcCall /\ ZNType \in {"P", "PI", "PID"}
       /\ ~QTiny(QMul(Fit.Kp, FlooredL), 1000000000)) =>
        /\ AgreesWithTable(ZNLocals, ZNTable(Fit.Kp, FlooredL, FlooredT, ZNType), ZNType)
        /\ outcome = "ok"
        /\ result.proportional_band
             = clamp(QDiv(Q(100, 1), ZNLocals.Kc), QH(PB_ENG_PARAM.min), QH(PB_ENG_PARAM.max))
        /\ (Fit = Triple(Q(1, 1), Q(2, 1), Q(10, 1)) /\ ZNType = "PID") =>
              /\ ZNLocals.Kc = [n |-> 6, d |-> 1]
              /\ ZNLocals.pb_new = [n |-> 50, d |-> 3]
              /\ ZNLocals.Ti_s = [n |-> 4, d |-> 1]
              /\ ZNLocals.Td_s = [n |-> 1, d |-> 1]

\* the response 0, 0, 100 at 0 s, 2 s, 12 s fits Kp = 1, L = 2, T = 10
C16_Witness ==
    /\ CalcCall /\ ZNType = "PID"
    /\ Fit = Triple(Q(1, 1), Q(2, 1), Q(10, 1))
    /\ ZNLocals.Kc = Q(6, 1)
    /\ result.proportional_band = Q(50, 3)

InSpec(o, spec) ==
    IsNone(o) \/ (~QLt(Val(o), QH(spec.min)) /\ ~QLt(QH(spec.max), Val(o)))

\* C17: for every response, unit mode, sample interval and controller type
\* P, PI or PID, every present field of the returned PIDParameters lies in
\* its ParamSpec range, and the value carries exactly the pair of the unit
\* mode.
C17_ReturnedFieldsInRange ==
    (CalcCall /\ ZNType \in {"P", "PI", "PID"}) =>
        /\ outcome = "ok"
        /\ InSpec(Some(result.proportional_band), PB_ENG_PARAM)
        /\ InSpec(result.integral, INTEGRAL_SI_ENG_PARAM)
        /\ InSpec(result.derivative, DERIVATIVE_SI_ENG_PARAM)
        /\ InSpec(result.reset, RESET_US_ENG_PARAM)
        /\ InSpec(result.rate, RATE_US_ENG_PARAM)
        /\ InSpec(result.dead_band, DB_ENG_PARAM)
        /\ InSpec(result.hysteresis, HYST_ENG_PARAM)
        /\ CarriesPairOf(result, args.pid_units_mode)

\* in US mode a short dead time gave a reset above the range, returned as
\* the maximum 99.99
C17_Witness ==
    /\ CalcCall /\ ZNType = "PID" /\ args.pid_units_mode = "US"
    /\ QLt(QH(RESET_US_ENG_PARAM.max), QDiv(Q(60, 1), ZNLocals.Ti_s))
    /\ result.reset = Some(Q(9999, 100))

\* C18: clamp(x, min, max) lies in [min, max], is x when x is already in
\* [min, max], and clamping its result again changes nothing.
C18_ClampInRangeAndIdempotent ==
    op = "clamp" =>
        LET lo == args.min_val
            hi == args.max_val
            x == args.val
        IN /\ ~QLt(result, lo) /\ ~QLt(hi, result)
           /\ (~QLt(x, lo) /\ ~QLt(hi, x)) => result = x
           /\ clamp(result, lo, hi) = result

\* a value below the minimum of the hysteresis range was raised to it
C18_Witness ==
    /\ op = "clamp"
    /\ args.min_val = Q(1, 1)
    /\ args.val = Q(1, 2)
    /\ result = Q(1, 1)

\* ---------------------------------------------------------------- C19
TimeCall == op = "get_time_entries_timedelta" /\ outcome = "ok"
Entered == td(args.hours, args.minutes, args.seconds)

\* C19: for every non-negative (hours, minutes, seconds) entry the duration
\* returned by get_time_entries_timedelta has the seconds and minutes of the
\* entry with seconds >= 60 carried into minutes and minutes >= 60 carried
\* into hours, both below 60, and hours capped at 99 in every case, also when
\* the minutes entered are below 60 (150h 0m 0s gives 99h 0m 0s, 0h 125m 61s
\* gives 2h 6m 1s)
C19_CarriedAndCappedAt99 ==
    TimeCall =>
        LET e == timedelta_to_hours_minutes_seconds(Entered)
            r == timedelta_to_hours_minutes_seconds(result)
        IN  /\ r.seconds = e.seconds /\ r.seconds < 60
            /\ r.minutes = e.minutes /\ r.minutes < 60
            /\ r.hours = (IF e.hours <= 99 THEN e.hours ELSE 99)
            /\ (args = [hours |-> 150, minutes |-> 0, seconds |-> 0]
                    => result = td(99, 0, 0))
            /\ (args = [hours |-> 0, minutes |-> 125, seconds |-> 61]
                    => result = td(2, 6, 1))

\* ---------------------------------------------------------------- C20
\* C20: for every Program and every StepDetail variant (RampByTime,
\* RampByRate, Soak, Jump, End, Autostart by date and by day),
\* json_to_program(program_to_json(p)) equals p field for field, End's two
\* idle setpoints and Autostart's start_day / start_date included
C20_RoundTripFieldForField ==
    (op = "json_to_program" /\ outcome = "ok") => result = args.program


\* ---------------------------------------------------------------- C12
\* the tuning function got its connection and entered the loop's code
TuneCall ==
    /\ op = "your_pid_tuning_function"
    /\ args.link.ports # <<>>
    /\ args.link.env[args.link.ports[1]] = "answers"

\* get_pid_units_mode() at line 264, ahead of the loop, came through
PastUnitsRead == log # <<>> /\ log[1].ok

\* C12: for every list of tuning targets and every failure raised at any
\* stage of one target (writing the initial PIDs, commanding a setpoint or
\* reading the temperature during the step test, fitting and computing the
\* new PIDs, applying them, the verification window), the function catches
\* the failure and goes on: every target of the list is attempted and the
\* function returns normally
C12_EveryTargetAttempted ==
    TuneCall /\ PastUnitsRead
        => /\ outcome = "ok"
           /\ started = args.tuning_targets

\* the slopes between consecutive samples that line 121 does not skip are all
\* of magnitude below 1e-6
NearZeroSlopes(r) ==
    \A i \in 1..(Len(r.time_points) - 1) :
        LET dt == QSub(r.time_points[i + 1], r.time_points[i])
        IN (dt.n > 0 /\ ~QTiny(dt, 1000000)) =>
               QTiny(QDiv(QSub(r.temp_points[i + 1], r.temp_points[i]), dt), 1000000)

\* C28: for a response of at least 3 samples whose slope of largest
\* magnitude between consecutive samples is near zero, and every sample
\* interval, find_reaction_curve_params returns L = 2 x interval and
\* T = 5 x interval and does not raise.
C28_FlatResponseFallback ==
    (FitCall /\ Len(args.response_data.time_points) >= 3
       /\ NearZeroSlopes(args.response_data)) =>
        /\ outcome = "ok"
        /\ result.L = QMul(Q(2, 1), args.sample_interval)
        /\ result.T = QMul(Q(5, 1), args.sample_interval)

\* the response 0, 100, 100, 100 with two samples per time stamp has no
\* slope to measure and a process gain of 1
C28_Witness ==
    /\ FitCall
    /\ Len(args.response_data.time_points) = 4
    /\ NearZeroSlopes(args.response_data)
    /\ args.response_data.temp_points[1] # args.response_data.temp_points[2]
    /\ args.sample_interval = Q(5, 1)
    /\ result = Triple(Q(1, 1), Q(10, 1), Q(25, 1))

\* C29: for every response and positive sample interval the returned
\* (Kp, L, T) has L >= 0 and T >= the sample interval, on every return path.
C29_DeadTimeAndTimeConstantFloors ==
    FitCall =>
        /\ outcome = "ok"
        /\ result.L.d > 0 /\ result.L.n >= 0
        /\ result.T.d > 0 /\ ~QLt(result.T, args.sample_interval)

\* a response with a measurable slope whose time constant came out at the
\* sample interval, after a positive dead time
C29_Witness ==
    /\ FitCall
    /\ Len(args.response_data.time_points) >= 3
    /\ ~NearZeroSlopes(args.response_data)
    /\ result.L.n > 0
    /\ result.T = args.sample_interval
    /\ args.sample_interval = Q(5, 1)

\* Kp x L of the call in progress is below 1e-9
NegligibleGain == QTiny(QMul(Fit.Kp, FlooredL), 1000000000)

RegisterCall == op \in {"read_register", "write_register"}

\* C25: a read_register or write_register call performs at most one
\* transport operation, on the register it was given; when that operation
\* fails the call raises the error, without a second transport call, a port
\* probe or a change of the connection.
C25_OneTransportCallNoRetry ==
    RegisterCall =>
        /\ Len(log) <= 1
        /\ \A i \in 1..Len(log) :
               /\ log[i].reg = args.register
               /\ log[i].rw = (IF op = "read_register" THEN "R" ELSE "W")
        /\ outcome = "ok" <=> (Len(log) = 1 /\ log[1].ok)
        /\ outcome = "IOError" <=> (Len(log) = 1 /\ ~log[1].ok)
        /\ outcome = "ConnectionError" <=> log = <<>>
        /\ attempts = <<>> /\ ~enumerated
        /\ Connected = was_connected

\* a write whose one transport call failed
C25_Witness ==
    /\ op = "write_register"
    /\ Len(log) = 1 /\ ~log[1].ok
    /\ outcome = "IOError"
    /\ Connected

\* the place of a written register in the stated order of write_pid_parameters
\* (0: not a register the order names for this unit mode)
PidRank(reg, mode) ==
    CASE reg = PidRegs.pb -> 1
      [] reg = (IF mode = "SI" THEN PidRegs.int_si ELSE PidRegs.rst_us) -> 2
      [] reg = (IF mode = "SI" THEN PidRegs.der_si ELSE PidRegs.rte_us) -> 3
      [] reg = PidRegs.db -> 4
      [] reg = PidRegs.hyst -> 5
      [] reg = SAVE_CHANGES_TO_EEPROM -> 6
      [] OTHER -> 0
LogWrites == {i \in 1..Len(log) : log[i].rw = "W"}

\* C24: in every write_pid_parameters call the writes occur in the order
\* proportional band, the two registers of the unit-mode pair, dead band,
\* hysteresis, with the EEPROM commit as the last write, and the unit mode
\* is read before the first write.
C24_WritesInStatedOrder ==
    PidCall =>
        /\ \A i \in LogWrites : PidRank(log[i].reg, PidMode) > 0
        /\ \A i, j \in LogWrites :
               i < j => PidRank(log[i].reg, PidMode) < PidRank(log[j].reg, PidMode)
        /\ LogWrites # {} => (log[1].rw = "R" /\ log[1].reg = SYSTEM_PID_UNITS)
        /\ outcome = "ok" => log[Len(log)].reg = SAVE_CHANGES_TO_EEPROM

ProfileWriteCall == op \in {"configure_profile", "insert_step"}

\* C23: when a register write fails while configure_profile selects the
\* profile, or while insert_step writes a step, the call raises that error
\* and the failed write is the last transport call of the call: it is not
\* repeated, nothing of a later step is written and no commit follows.
C23_FailedWriteEndsTheCall ==
    ProfileWriteCall =>
        /\ \A i \in 1..Len(log) :
               ~log[i].ok => (i = Len(log) /\ outcome = "IOError")
        /\ outcome = "IOError" => (log # <<>> /\ ~log[Len(log)].ok /\ IsNone(result))
        /\ (\E i \in 1..Len(log) : ~log[i].ok) => ~Wrote(log, SAVE_CHANGES_TO_EEPROM)

\* configure_profile whose profile selection failed
C23_Witness ==
    /\ op = "configure_profile"
    /\ Len(log) = 1 /\ ~log[1].ok /\ log[1].reg = PROFILE_NUMBER
    /\ outcome = "IOError"

StepTestCall == op = "perform_step_test"
\* positions in the record of the call: temperature samples, setpoint
\* commands, sleeps
SamplesTaken == {k \in 1..Len(log) : log[k].reg = Reg("read_temperature_func")}
SetpointCommands ==
    {k \in 1..Len(log) : log[k].rw = "W" /\ log[k].reg = VALUE_SET_POINT_1}
SleepsDone == {k \in 1..Len(log) : log[k].rw = "S"}
\* the step command: the second setpoint write (0: not reached)
StepCommand ==
    IF Cardinality(SetpointCommands) < 2 THEN 0
    ELSE CHOOSE k \in SetpointCommands :
            Cardinality({j \in SetpointCommands : j < k}) = 1

\* C26: in a perform_step_test call the initial setpoint is commanded first,
\* the settle wait elapses, exactly one pre-step sample is read and recorded
\* at relative time 0, the final setpoint is commanded, and only then are
\* post-step samples read; no sample is read before the end of the settle
\* wait, and the pre-step sample is read before the final setpoint write.
C26_SettleThenPreStepSampleThenStep ==
    StepTestCall =>
        /\ log # <<>> =>
              /\ log[1].rw = "W" /\ log[1].reg = VALUE_SET_POINT_1
              /\ log[1].val = args.initial_sp
        /\ \A k \in SamplesTaken :
              \E j \in SleepsDone :
                 /\ j < k /\ 1 < j
                 /\ log[j].val = args.settle_time_seconds
                 /\ log[j].at >= log[1].at
                 /\ log[k].at >= log[j].at + args.settle_time_seconds
        /\ StepCommand # 0 =>
              /\ log[StepCommand].val = args.final_sp
              /\ Cardinality({k \in SamplesTaken : k < StepCommand}) = 1
              /\ \A k \in SamplesTaken :
                    k < StepCommand => log[k].at <= log[StepCommand].at
              /\ \A k \in SamplesTaken :
                    k > StepCommand => log[k].at >= log[StepCommand].at
        /\ Cardinality(SamplesTaken) > 1 => StepCommand # 0
        /\ outcome = "ok" =>
              /\ StepCommand # 0
              /\ result.time_points[1] = 0
              /\ \E k \in SamplesTaken :
                    k < StepCommand /\ result.temp_points[1] = log[k].val

\* a test that settled for 2 ticks on a link that oversleeps, then took
\* its pre-step sample, stepped and sampled
C26_Witness ==
    /\ StepTestCall /\ outcome = "ok"
    /\ args.settle_time_seconds = 2 /\ args.link.oversleep = 1
    /\ log[3].rw = "S" /\ log[4].reg = Reg("read_temperature_func")
    /\ log[4].at > log[3].at + 2
    /\ StepCommand = 5
    /\ Cardinality(SamplesTaken) = MaxSamples

\* the post-step samples, and the number of the one at position k
PostStepSamples == {k \in SamplesTaken : StepCommand # 0 /\ k > StepCommand}
SampleNumber(k) == Cardinality({j \in PostStepSamples : j <= k})
NumSamples == args.duration_seconds \div args.sample_interval_seconds
\* step_command_issue_time + i x sample_interval_seconds
SampleTarget(i) == log[StepCommand].at + i * args.sample_interval_seconds

\* C27: floor(duration / interval) post-step samples are taken; sample i is
\* not taken before issue time + i x interval, the wait before it is the
\* time left to that target when positive and none otherwise, whatever the
\* lateness of earlier samples; the returned sequences both have length
\* 1 + floor(duration / interval), the relative times do not decrease and
\* the returned duration is at least the last of them.
C27_SamplesOnTheirTargets ==
    StepTestCall =>
        /\ Cardinality(PostStepSamples) <= NumSamples
        /\ \A k \in PostStepSamples :
              /\ log[k].at >= SampleTarget(SampleNumber(k))
              /\ log[k - 1].rw = "S" =>
                    /\ log[k - 1].val > 0
                    /\ log[k - 1].val = SampleTarget(SampleNumber(k)) - log[k - 1].at
        /\ \A j \in SleepsDone : j > StepCommand /\ StepCommand # 0 =>
              (j = Len(log) \/ j + 1 \in PostStepSamples)
        /\ outcome = "ok" =>
              /\ Cardinality(PostStepSamples) = NumSamples
              /\ Len(result.time_points) = 1 + NumSamples
              /\ Len(result.temp_points) = 1 + NumSamples
              /\ \A k \in PostStepSamples :
                    /\ result.time_points[1 + SampleNumber(k)]
                          = log[k].at - log[StepCommand].at
                    /\ result.temp_points[1 + SampleNumber(k)] = log[k].val
              /\ \A i \in 1..NumSamples :
                    result.time_points[i] <= result.time_points[i + 1]
              /\ result.step_command_execution_time
                    >= result.time_points[1 + NumSamples]

\* the reading of sample 1 took longer than a sample interval: sample 2 was
\* late and sample 3 was taken on its own target
C27_Witness ==
    /\ StepTestCall /\ outcome = "ok"
    /\ args.sample_interval_seconds = 2
    /\ NumSamples >= 3
    /\ result.time_points[2] = 2
    /\ result.time_points[3] > 4
    /\ result.time_points[4] = 6
    /\ \E k \in PostStepSamples : SampleNumber(k) = 3 /\ log[k - 1].rw = "S"

\* C21: after any sequence of new_file, add_step, update_step and remove_step
\* the editor's step list is non-empty and its last step is of type End
C21_LastStepIsEnd ==
    /\ steps # <<>>
    /\ steps[Len(steps)] = END

\* C22: with two callers sharing one WatlowF4, at most one register operation
\* is in flight on the serial link at any time
C22_OneOperationInFlight ==
    Cardinality({c \in Callers : pc[c] = "in_flight"}) <= 1

\* --------------------------------------------------- insert_step, by variant
InsertCall == op = "insert_step" /\ was_connected
InsertRanClean == InsertCall /\ outcome = "ok" /\ AllOk(log)

\* C31: an insert_step of an Autostart step that runs clean writes the type
\* code, the step's own date-or-day flag, the month, day and year of the date
\* of the call, the step's start_day and the hours, minutes and seconds of
\* its start_time.
C31_AutostartWritesOwnFields ==
    (InsertRanClean /\ args.step.type = "Autostart") =>
        LET step == args.step
            t == timedelta_to_hours_minutes_seconds(step.start_time)
        IN /\ WroteValue(log, Reg("PROFILE_STEP_TYPE"), step.type_enum)
           /\ WroteValue(log, Reg("PROFILE_AUTOSTART_DATE_OR_DAY"), step.date_or_day)
           /\ WroteValue(log, Reg("PROFILE_AUTOSTART_DATE_MONTH"), args.now.month)
           /\ WroteValue(log, Reg("PROFILE_AUTOSTART_DATE_DAY"), args.now.day)
           /\ WroteValue(log, Reg("PROFILE_AUTOSTART_DATE_YEAR"), args.now.year)
           /\ WroteValue(log, Reg("PROFILE_AUTOSTART_DAY_OF_WEEK"), Val(step.start_day))
           /\ WroteValue(log, Reg("PROFILE_AUTOSTART_TIME_HOURS"), t.hours)
           /\ WroteValue(log, Reg("PROFILE_AUTOSTART_TIME_MINUTES"), t.minutes)
           /\ WroteValue(log, Reg("PROFILE_AUTOSTART_TIME_SECONDS"), t.seconds)

\* the writes of the call that belong to its k-th step: from the k-th write
\* of the step number to the next one
StepStarts == {i \in LogWrites : log[i].reg = PROFILE_STEP_NUMBER}
SegmentOf(k) == {i \in LogWrites : Cardinality({j \in StepStarts : j <= i}) = k}
Housekeeping ==
    {PROFILE_NUMBER, PROFILE_STEP_NUMBER, PROFILE_EDIT_ACTION,
     Reg("PROFILE_STEP_TYPE"), SAVE_CHANGES_TO_EEPROM}
StepFieldWrites(k) == {log[i].reg : i \in SegmentOf(k)} \ Housekeeping

\* the field registers of each variant
EventRegisters == {RegOff("PROFILE_EVENT_OUTPUT_1", k) : k \in 0..(NumEvents - 1)}
FieldRegisters(step) ==
    CASE step.type = "RampTime" ->
           {Reg("PROFILE_WAIT_FOR")} \cup EventRegisters
           \cup {Reg("PROFILE_RAMP_SETPOINT_CHANNEL_1"), Reg("PROFILE_RAMP_SETPOINT_CHANNEL_2"),
                 Reg("PROFILE_PID_SET_CHANNEL_1"), Reg("PROFILE_PID_SET_CHANNEL_2"),
                 Reg("PROFILE_GUARANTEED_SOAK_CHANNEL_1"),
                 Reg("PROFILE_GUARANTEED_SOAK_CHANNEL_2")}
      [] step.type = "RampRate" ->
           {Reg("PROFILE_WAIT_FOR")} \cup EventRegisters
           \cup {Reg("PROFILE_RATE_RAMP_RATE_STEP"), Reg("PROFILE_RAMP_SETPOINT_CHANNEL_1"),
                 Reg("PROFILE_PID_SET_CHANNEL_1"), Reg("PROFILE_GUARANTEED_SOAK_CHANNEL_1")}
      [] step.type = "Soak" ->
           {Reg("PROFILE_WAIT_FOR")} \cup EventRegisters
           \cup {Reg("PROFILE_SOAK_STEP_TIME_HOURS"), Reg("PROFILE_SOAK_STEP_TIME_MINUTES"),
                 Reg("PROFILE_SOAK_STEP_TIME_SECONDS"),
                 Reg("PROFILE_PID_SET_CHANNEL_1"), Reg("PROFILE_PID_SET_CHANNEL_2"),
                 Reg("PROFILE_GUARANTEED_SOAK_CHANNEL_1"),
                 Reg("PROFILE_GUARANTEED_SOAK_CHANNEL_2")}
      [] step.type = "Jump" ->
           {Reg("PROFILE_JUMP_TO_PROFILE"), Reg("PROFILE_JUMP_TO_STEP"),
            Reg("PROFILE_JUMP_REPEATS")}
      [] step.type = "End" ->
           {Reg("PROFILE_END_ACTION"), Reg("PROFILE_END_IDLE_SETPOINT_CHANNEL_1"),
            Reg("PROFILE_END_IDLE_SETPOINT_CHANNEL_2")}
      [] step.type = "Autostart" ->
           {Reg("PROFILE_AUTOSTART_DATE_OR_DAY"), Reg("PROFILE_AUTOSTART_DATE_MONTH"),
            Reg("PROFILE_AUTOSTART_DATE_DAY"), Reg("PROFILE_AUTOSTART_DATE_YEAR"),
            Reg("PROFILE_AUTOSTART_DAY_OF_WEEK"), Reg("PROFILE_AUTOSTART_TIME_HOURS"),
            Reg("PROFILE_AUTOSTART_TIME_MINUTES"), Reg("PROFILE_AUTOSTART_TIME_SECONDS")}

\* C32: in a configure_profile call that runs clean, the field registers
\* written for step k of the program are exactly the field set of the
\* variant of step k: the event flags at base + 0..7 where the variant has
\* them, and no register of another variant.
C32_FieldSetOfEachVariant ==
    ConfigureRanClean =>
        \A k \in 1..Len(args.program.steps) :
            StepFieldWrites(k) = FieldRegisters(args.program.steps[k])

\* ------------------------------------------------------------ profile names
\* the k-th name register of a profile (k from 0): profile_name_enum_dict
\* gives the first one, the code steps from it by now_register + 1
NameRegister(profile_num, k) == [name |-> "PROFILE_NAME", profile |-> profile_num, off |-> k]
IsNameRegister(reg) == reg.name = "PROFILE_NAME"
NameWrites == {i \in LogWrites : IsNameRegister(log[i].reg)}

\* C33: a configure_profile(program, n) call that runs clean writes the
\* program's name into the name registers of profile n, the profile its
\* first write selected, and into no name register of another profile.
C33_NameGoesToSelectedProfile ==
    (ConfigureRanClean /\ args.program.name # "") =>
        /\ log[1].reg = PROFILE_NUMBER /\ log[1].val = args.profile_num
        /\ \E i \in NameWrites : log[i].reg = NameRegister(args.profile_num, 0)
        /\ \A i \in NameWrites : log[i].reg.profile = args.profile_num

ProfileNameRanClean == op = "set_profile_name" /\ was_connected /\ AllOk(log)

\* C34: a set_profile_name call that runs clean writes character idx of the
\* name to name register idx \div 10 of the profile, so that no register
\* receives more than ten characters and no register past the end of the
\* name is written.
C34_CharactersInChunksOfTen ==
    ProfileNameRanClean =>
        LET chars == Chars(args.profile_name) IN
        /\ \A idx \in 0..(Len(chars) - 1) :
               \E i \in NameWrites :
                   /\ log[i].reg = NameRegister(args.profile_num, idx \div 10)
                   /\ log[i].val = chars[idx + 1]
        /\ \A i \in NameWrites :
               /\ log[i].reg.off * 10 < Len(chars)
               /\ Cardinality({j \in NameWrites : log[j].reg = log[i].reg}) <= 10

\* ------------------------------------------------- the stages of one target
\* a tuning call of one target in which no call of the transport or of
\* read_temperature_func failed, the PID type is one the rules know, and the
\* step test was reached
IsReading(e) == e.reg = Reg("read_temperature_func")
Readings == {i \in 1..Len(log) : IsReading(log[i])}
OneTargetRanClean ==
    /\ TuneCall /\ PastUnitsRead /\ AllOk(log)
    /\ Len(args.tuning_targets) = 1
    /\ args.cfg.zn_pid_type = "PID"
    /\ Readings # {}
TargetRegs ==
    get_pid_registers(args.tuning_targets[1].pid_set, args.tuning_targets[1].channel,
                      args.tuning_targets[1].side)
BandWrites == {i \in LogWrites : log[i].reg = TargetRegs.pb}
CommitWrites == {i \in LogWrites : log[i].reg = SAVE_CHANGES_TO_EEPROM}
StepTestReadings ==
    {i \in Readings : \E j \in BandWrites : j > i}
VerificationSamples ==
    args.cfg.verification_duration_s \div args.cfg.step_test_sample_interval_s

RegsOf(t) == get_pid_registers(t.pid_set, t.channel, t.side)
BandWritesOf(t) == {i \in LogWrites : log[i].reg = RegsOf(t).pb}
NewPidsWrittenAt(t, k) ==
    /\ k \in BandWritesOf(t)
    /\ \E j \in BandWritesOf(t) : j < k
    /\ \E c \in CommitWrites :
           /\ c > k
           /\ \A j \in k..c : log[j].ok
           /\ \A j \in (k + 1)..(c - 1) : log[j].reg.name \in PidRegisterNames
NewPidsWritten(t) == \E k \in 1..Len(log) : NewPidsWrittenAt(t, k)
TargetsTuned ==
    IF outcome = "ok" THEN DOMAIN result.tuned_pids_results ELSE {}
DistinctTargets ==
    \A i, j \in 1..Len(args.tuning_targets) :
        i # j => args.tuning_targets[i] # args.tuning_targets[j]
TuneReturned == TuneCall /\ PastUnitsRead /\ outcome = "ok" /\ DistinctTargets

\* C37: the map your_pid_tuning_function returns has an entry for a target
\* if and only if the write of the target's new PIDs succeeded, the entry
\* holding the PIDs that were written; a target that failed at the initial
\* write, the computation or the final write has no entry.
C37_ResultsAreTheWrittenTargets ==
    TuneReturned =>
        \A i \in 1..Len(args.tuning_targets) :
            LET t == args.tuning_targets[i] IN
            /\ (t \in TargetsTuned) = NewPidsWritten(t)
            /\ t \in TargetsTuned =>
                   \E k \in 1..Len(log) :
                       /\ NewPidsWrittenAt(t, k)
                       /\ log[k].val =
                              IntRound(Clamp(computed_pids(result.tuned_pids_results[t])
                                                 .proportional_band, PB_ENG_PARAM))

\* two targets: the first failed at the write of its new PIDs, after its
\* step test, the second at its initial write; neither has an entry
C37_Witness ==
    /\ TuneReturned
    /\ Len(args.tuning_targets) = 2
    /\ args.cfg.zn_pid_type = "PID"
    /\ Cardinality(BandWritesOf(args.tuning_targets[1])) = 2
    /\ Readings # {}
    /\ \E k \in BandWritesOf(args.tuning_targets[2]) : ~log[k].ok
    /\ started = args.tuning_targets
    /\ result.tuned_pids_results = <<>>

\* C36: the writes of a clean insert_step include, for every variant, a
\* write of the step-type register with the type code of the variant.
C36_StepTypeWritten ==
    InsertRanClean => WroteValue(log, Reg("PROFILE_STEP_TYPE"), args.step.type_enum)

\* ------------------------------------------------ the tree and the program
\* C38: after every editor operation the rows of the tree are the steps of
\* the program, type by type in the same order, and an added step stands at
\* the index of the selected row, or immediately before the last step when
\* no row is selected, in both.
C38_TreeShowsTheProgram ==
    [][/\ tree' = steps'
       /\ (steps # <<>> /\ Len(steps') = Len(steps) + 1) =>
              steps' = InsertAt(steps, IF selection # 0 THEN selection ELSE Len(steps),
                                step_type_dropdown)]_vars

\* ------------------------------------------------- attempts of construction
\* C39: a construction ends either Connected or with ConnectionError; it
\* tries only its candidate ports (the explicit port, else the k enumerated
\* ones), each at most once, so it makes at most k connection attempts.
C39_EachCandidateTriedOnce ==
    op = "__init__" =>
        /\ outcome \in {"ok", "ConnectionError"}
        /\ outcome = "ok" <=> (alive /\ Connected)
        /\ outcome = "ConnectionError" <=> ~alive
        /\ Len(attempts) <= Len(Candidates)
        /\ \A i \in 1..Len(attempts) : attempts[i] = Candidates[i]
        /\ \A i, j \in 1..Len(attempts) : i # j => attempts[i] # attempts[j]

\* three enumerated ports, the first cannot be opened, none answers: three
\* attempts and the ConnectionError
C39_Witness ==
    /\ ConstructedWithoutPort
    /\ Len(args.ports) = 3
    /\ args.env[args.ports[1]] = "noopen"
    /\ Len(attempts) = Len(args.ports)
    /\ outcome = "ConnectionError"
    /\ ~alive

====
